---- MODULE Spec2Model ----
(***************************************************************************)
(* A model of the concurrent core of gibram:                               *)
(*   - types.Session quota accounting        (pkg/types/errors.go)         *)
(*   - engine.SessionCleanupScheduler        (pkg/engine/cleanup_scheduler.go) *)
(*   - engine.CommunityTaskManager           (pkg/engine/async_community.go)   *)
(*   - backup.WAL LSN bookkeeping            (pkg/backup, from its tests)  *)
(* Each subsystem has its own specification (QuotaSpec, SchedSpec,         *)
(* TaskSpec, WalSpec); the variables of the other subsystems stay frozen.  *)
(***************************************************************************)
EXTENDS Integers, Sequences, FiniteSets, TLC

VARIABLES
    \* ---- types.Session (quota fields) ----
    EntityCount, RelationshipCount, DocumentCount, MemoryBytes,
    MaxEntities, MaxRelationships, MaxDocuments, MaxMemoryBytes,
    inserter,      \* per concurrent insert: where it is between check and increment
    err,           \* error returned by the latest Check...Quota call
    \* ---- engine.CommunityTaskManager ----
    configured,    \* the workers argument NewCommunityTaskManager was called with
    workers,       \* tm.workers
    task,          \* the CommunityTask objects allocated so far, by task id
    tasks,         \* tm.tasks: the ids held in the manager's map
    nextTask,      \* number of task ids handed out so far
    queue,         \* tm.queue: buffered channel of task ids
    queueClosed,   \* close(tm.queue) has run
    ctxDone,       \* tm.cancel() has run: tm.ctx.Done() is closed
    worker,        \* per worker goroutine: position in worker/processTask
    submitter,     \* per caller of SubmitCommunityTask: position and return value
    shutdownPc,    \* position of the caller of Shutdown
    ret,           \* error returned by the latest CancelTask call
    \* ---- engine.SessionCleanupScheduler, Engine.sessions, types.Session (TTL fields) ----
    now,           \* time.Now().UnixNano(), in clock units
    sessions,      \* engine.sessions: ids present in the session directory
    sess,          \* the Session objects: CreatedAt, LastAccess, TTL, IdleTTL
    heap,          \* s.heap: slice of *sessionExpiry (an entry is named by its sessionID)
    expiry,        \* the sessionExpiry objects: expireAt and index
    heapIndex,     \* s.heapIndex: ids that have an entry
    schedPc,       \* position of the run() goroutine
    wakeAt,        \* when the timer armed by timer.Reset(delay) fires
    cleanNow,      \* the local now of the cleanup() call in progress
    toRemove,      \* the local toRemove of the cleanup() call in progress
    \* ---- backup.WAL ----
    walMode,       \* the sync mode NewWAL was given
    currentLSN,    \* LSN of the last appended entry
    flushedLSN,    \* LSN of the last entry known to be fsynced
    walMu,         \* holder of the WAL mutex
    appender,      \* per caller of Append: position and the LSN it took
    returned,      \* the LSNs Append has returned, in order of return
    \* ---- backup.BackupCoordinator and the snapshot files ----
    coord,         \* the coordinator: position, prepared LSN, outcome of the last Commit
    snapFile,      \* LSN in the header of the file at the snapshot path, or NoFile
    tmpFile,       \* LSN in the header of <path>.tmp, or NoFile
    \* ---- backup.Recovery ----
    rStore,        \* the in-memory state: record id -> value, or Absent
    rLog,          \* the WAL entries of the plan, in LSN order
    rSnapLSN,      \* LSN of the restored snapshot
    rUpsert,       \* whether applyFn creates the record on an Update for a missing id
    rPass,         \* number of replays of the plan done so far
    rOnce,         \* the state after the first replay
    rErr,          \* error of the latest Execute
    \* ---- the WAL directory and backup.ReadEntries ----
    dSegments,     \* the segment files, oldest first: each a sequence of encoded entries
    dAppended,     \* the entries Append was called with, with their LSNs
    dFrom,         \* fromLSN of the latest ReadEntries
    dOut,          \* entries the latest ReadEntries returned
    dErr,          \* its error
    \* ---- types.IDGenerator ----
    idCounters,    \* the six counters of the generator
    issued,        \* per kind, the ids the Next...ID calls returned, in order
    captured,      \* the values the latest GetCounters returned
    haveCapture,   \* whether GetCounters has been called
    rebuilt,       \* whether the generator was replaced or its counters overwritten
    lastOp,        \* the latest operation on the generator
    \* ---- shutdown.Handler ----
    hooks,         \* h.hooks
    started,       \* h.started
    doneClosed,    \* whether h.done has been closed
    sdPanic,       \* whether the process has panicked in Shutdown
    run,           \* per caller of Shutdown: position, copy of the hooks, hook states
    \* ---- callers of GetTaskStatus, GetTaskResult and CleanupOldTasks ----
    getter,        \* the caller of GetTaskStatus / GetTaskResult: position, locals, results
    removed,       \* the count the latest CleanupOldTasks returned
    \* ---- memory.LRUCache ----
    capacity,      \* c.capacity
    items,         \* c.items: the keys of the map (each maps to its element of c.order)
    order,         \* c.order: the lruEntry elements, front first
    hits, misses,  \* c.hits, c.misses
    lruRet,        \* what the latest call on the cache returned
    lruCalls,      \* history: number of calls made on the cache
    lastUse,       \* history: per key, the number of the latest Get hit or Put
    \* ---- simd.CosineSimilarity and its caller ----
    hasAVX2Check,  \* cpu.X86.HasAVX2 && cpu.X86.HasFMA on this host
    va, vb,        \* the two vectors the caller passes
    cosOut,        \* what CosineSimilarity(va, vb) returned
    scalarOut,     \* what cosineSimilarityScalar(va, vb) returned
    \* ---- the locks of the cleanup scheduler and of the engine ----
    sMu,           \* holder of s.mu (SessionCleanupScheduler)
    engineMu,      \* holder of engine.mu
    cleaner,       \* position of the run() goroutine
    engineOp,      \* per engine operation: position and the scheduler method it calls
    \* ---- resilience.CircuitBreaker and the callers of Execute ----
    cb,            \* the fields of the CircuitBreaker
    req,           \* per caller of Execute: position, state at admission, error returned
    hoAdmitted,    \* history: requests admitted since the breaker last became HalfOpen
    openedAt       \* history: the clock reading when the breaker last became Open

quotaVars == << EntityCount, RelationshipCount, DocumentCount, MemoryBytes,
                MaxEntities, MaxRelationships, MaxDocuments, MaxMemoryBytes,
                inserter, err >>

taskVars == << configured, workers, task, tasks, nextTask, queue, queueClosed,
               ctxDone, worker, submitter, shutdownPc, ret >>

schedVars == << now, sessions, sess, heap, expiry, heapIndex, schedPc, wakeAt,
                cleanNow, toRemove >>

walVars == << walMode, currentLSN, flushedLSN, walMu, appender, returned >>

backupVars == << coord, snapFile, tmpFile >>

recoveryVars == << rStore, rLog, rSnapLSN, rUpsert, rPass, rOnce, rErr >>

readVars == << dSegments, dAppended, dFrom, dOut, dErr >>

idVars == << idCounters, issued, captured, haveCapture, rebuilt, lastOp >>

shutdownVars == << hooks, started, doneClosed, sdPanic, run >>

callerVars == << getter, removed >>

lruVars == << capacity, items, order, hits, misses, lruRet, lruCalls, lastUse >>

simdVars == << hasAVX2Check, va, vb, cosOut, scalarOut >>

lockVars == << sMu, engineMu, cleaner, engineOp >>

breakerVars == << cb, req, hoAdmitted, openedAt >>

vars == << quotaVars, taskVars, schedVars, walVars, backupVars, recoveryVars, readVars,
          idVars, shutdownVars, callerVars, lruVars, simdVars, lockVars, breakerVars >>

\* what a step of one subsystem leaves alone
nonQuota == << taskVars, schedVars, walVars, backupVars, recoveryVars, readVars,
    idVars, shutdownVars, callerVars, lruVars, simdVars, lockVars, breakerVars >>
nonTask == << quotaVars, schedVars, walVars, backupVars, recoveryVars, readVars,
    idVars, shutdownVars, callerVars, lruVars, simdVars, lockVars, breakerVars >>
nonSched == << quotaVars, taskVars, walVars, backupVars, recoveryVars, readVars,
    idVars, shutdownVars, callerVars, lruVars, simdVars, lockVars, breakerVars >>
nonWal == << quotaVars, taskVars, schedVars, backupVars, recoveryVars, readVars,
    idVars, shutdownVars, callerVars, lruVars, simdVars, lockVars, breakerVars >>
\* the coordinator syncs the WAL, so its steps leave alone only what is outside both
nonBackup == << quotaVars, taskVars, schedVars, recoveryVars, readVars,
    idVars, shutdownVars, callerVars, lruVars, simdVars, lockVars, breakerVars >>
nonRead == << quotaVars, taskVars, schedVars, walVars, backupVars, recoveryVars,
    idVars, shutdownVars, callerVars, lruVars, simdVars, lockVars, breakerVars >>
nonId == << quotaVars, taskVars, schedVars, walVars, backupVars, recoveryVars, readVars,
    shutdownVars, callerVars, lruVars, simdVars, lockVars, breakerVars >>
nonShutdown == << quotaVars, taskVars, schedVars, walVars, backupVars, recoveryVars,
    readVars, idVars, callerVars, lruVars, simdVars, lockVars, breakerVars >>
nonCaller == << quotaVars, schedVars, walVars, backupVars, recoveryVars, readVars,
    idVars, shutdownVars, lruVars, simdVars, lockVars, breakerVars >>
nonLru == << quotaVars, taskVars, schedVars, walVars, backupVars, recoveryVars,
    readVars, idVars, shutdownVars, callerVars, simdVars, lockVars, breakerVars >>
nonSimd == << quotaVars, taskVars, schedVars, walVars, backupVars, recoveryVars,
    readVars, idVars, shutdownVars, callerVars, lruVars, lockVars, breakerVars >>
nonLock == << quotaVars, taskVars, schedVars, walVars, backupVars, recoveryVars,
    readVars, idVars, shutdownVars, callerVars, lruVars, simdVars, breakerVars >>
nonBreaker == << quotaVars, taskVars, schedVars, walVars, backupVars, recoveryVars,
    readVars, idVars, shutdownVars, callerVars, lruVars, simdVars, lockVars >>
nonRecovery == << quotaVars, taskVars, schedVars, walVars, backupVars, readVars,
    idVars, shutdownVars, callerVars, lruVars, simdVars, lockVars, breakerVars >>

(***************************************************************************)
(* Bounds                                                                  *)
(***************************************************************************)
\* largest quota cap a session is created with
MaxCap == 2
\* largest count passed to one Check/Increment/Decrement call
MaxDelta == 2
\* calls are issued only while the counter involved stays within this
MaxCount == 3

Deltas == 1..MaxDelta
Inserters == {"i1", "i2"}

(***************************************************************************)
(* types.Session: quota checks and counters.  The Go counters are int and  *)
(* int64; the model keeps them far below 2^63, so no wrap-around occurs.   *)
(* Every method takes s.mu for its own body only: one method call is one   *)
(* atomic step, two calls are two steps.                                   *)
(***************************************************************************)
nil == "nil"
ErrEntityQuotaExceeded == "entity quota exceeded"
ErrRelationshipQuotaExceeded == "relationship quota exceeded"
ErrDocumentQuotaExceeded == "document quota exceeded"
ErrMemoryQuotaExceeded == "memory quota exceeded"

CheckEntityQuotaOffByOne(count) ==
    IF MaxEntities > 0 /\ EntityCount + count >= MaxEntities
    THEN ErrEntityQuotaExceeded ELSE nil

CheckEntityQuota(count) ==
    IF MaxEntities > 0 /\ EntityCount + count > MaxEntities
    THEN ErrEntityQuotaExceeded ELSE nil

CheckRelationshipQuota(count) ==
    IF MaxRelationships > 0 /\ RelationshipCount + count > MaxRelationships
    THEN ErrRelationshipQuotaExceeded ELSE nil

CheckDocumentQuota(count) ==
    IF MaxDocuments > 0 /\ DocumentCount + count > MaxDocuments
    THEN ErrDocumentQuotaExceeded ELSE nil

CheckMemoryQuota(bytes) ==
    IF MaxMemoryBytes > 0 /\ MemoryBytes + bytes > MaxMemoryBytes
    THEN ErrMemoryQuotaExceeded ELSE nil

IncrementEntity(count) == EntityCount + count
DecrementEntity(count) ==
    IF EntityCount - count < 0 THEN 0 ELSE EntityCount - count
IncrementRelationship(count) == RelationshipCount + count
DecrementRelationship(count) ==
    IF RelationshipCount - count < 0 THEN 0 ELSE RelationshipCount - count
IncrementDocument(count) == DocumentCount + count
DecrementDocument(count) ==
    IF DocumentCount - count < 0 THEN 0 ELSE DocumentCount - count
AddMemory(bytes) == MemoryBytes + bytes
SubMemory(bytes) ==
    IF MemoryBytes - bytes < 0 THEN 0 ELSE MemoryBytes - bytes

\* SetQuotas(c, c, c, c) on a fresh session (NewSession leaves all counts 0)
\* Session.GetInfo: the SessionInfo literal sets ID, CreatedAt, LastAccess, TTL
\* and IdleTTL; the count, memory and quota fields are not set and keep Go's
\* zero value
GetInfo ==
    [DocumentCount |-> 0, EntityCount |-> 0, RelationshipCount |-> 0, MemoryBytes |-> 0,
     MaxEntities |-> 0, MaxRelationships |-> 0, MaxDocuments |-> 0, MaxMemoryBytes |-> 0]

QuotaInit ==
    /\ EntityCount = 0 /\ RelationshipCount = 0
    /\ DocumentCount = 0 /\ MemoryBytes = 0
    /\ \E c \in 0..MaxCap :
          /\ MaxEntities = c /\ MaxRelationships = c
          /\ MaxDocuments = c /\ MaxMemoryBytes = c
    /\ inserter = [p \in Inserters |-> [pc |-> "idle", n |-> 0]]
    /\ err = nil

counters == << EntityCount, RelationshipCount, DocumentCount, MemoryBytes >>
caps == << MaxEntities, MaxRelationships, MaxDocuments, MaxMemoryBytes >>

\* An insert of n entities, first half: the quota pre-check.
InsertCheck(p, n) ==
    /\ inserter[p].pc = "idle"
    /\ EntityCount + n <= MaxCount
    /\ err' = CheckEntityQuota(n)
    /\ inserter' = [inserter EXCEPT ![p] =
                      IF err' = nil THEN [pc |-> "checked", n |-> n] ELSE @]
    /\ UNCHANGED << counters, caps >>
    /\ UNCHANGED nonQuota

\* An insert of n entities, second half: the counter update after the insert.
InsertIncrement(p) ==
    /\ inserter[p].pc = "checked"
    /\ EntityCount' = IncrementEntity(inserter[p].n)
    /\ inserter' = [inserter EXCEPT ![p] = [pc |-> "idle", n |-> 0]]
    /\ UNCHANGED << RelationshipCount, DocumentCount, MemoryBytes, caps, err >>
    /\ UNCHANGED nonQuota

DeleteEntity(n) ==
    /\ EntityCount' = DecrementEntity(n)
    /\ UNCHANGED << RelationshipCount, DocumentCount, MemoryBytes, caps, inserter, err >>
    /\ UNCHANGED nonQuota

CheckRelationship(n) ==
    /\ err' = CheckRelationshipQuota(n)
    /\ UNCHANGED << counters, caps, inserter >>
    /\ UNCHANGED nonQuota

CheckDocument(n) ==
    /\ err' = CheckDocumentQuota(n)
    /\ UNCHANGED << counters, caps, inserter >>
    /\ UNCHANGED nonQuota

CheckMemory(n) ==
    /\ err' = CheckMemoryQuota(n)
    /\ UNCHANGED << counters, caps, inserter >>
    /\ UNCHANGED nonQuota

AddRelationship(n) ==
    /\ RelationshipCount + n <= MaxCount
    /\ RelationshipCount' = IncrementRelationship(n)
    /\ UNCHANGED << EntityCount, DocumentCount, MemoryBytes, caps, inserter, err >>
    /\ UNCHANGED nonQuota

DeleteRelationship(n) ==
    /\ RelationshipCount' = DecrementRelationship(n)
    /\ UNCHANGED << EntityCount, DocumentCount, MemoryBytes, caps, inserter, err >>
    /\ UNCHANGED nonQuota

AddDocument(n) ==
    /\ DocumentCount + n <= MaxCount
    /\ DocumentCount' = IncrementDocument(n)
    /\ UNCHANGED << EntityCount, RelationshipCount, MemoryBytes, caps, inserter, err >>
    /\ UNCHANGED nonQuota

DeleteDocument(n) ==
    /\ DocumentCount' = DecrementDocument(n)
    /\ UNCHANGED << EntityCount, RelationshipCount, MemoryBytes, caps, inserter, err >>
    /\ UNCHANGED nonQuota

GrowMemory(n) ==
    /\ MemoryBytes + n <= MaxCount
    /\ MemoryBytes' = AddMemory(n)
    /\ UNCHANGED << EntityCount, RelationshipCount, DocumentCount, caps, inserter, err >>
    /\ UNCHANGED nonQuota

ShrinkMemory(n) ==
    /\ MemoryBytes' = SubMemory(n)
    /\ UNCHANGED << EntityCount, RelationshipCount, DocumentCount, caps, inserter, err >>
    /\ UNCHANGED nonQuota

(***************************************************************************)
(* engine.CommunityTaskManager.  A task id stands for the *CommunityTask   *)
(* pointer: tm.tasks and tm.queue hold pointers to the same object.  Task  *)
(* ids are taken to be fresh.  Every block under tm.mu is one step; a      *)
(* select statement is one step that takes any one of its ready cases.     *)
(* An unrecovered panic in any goroutine ends the process.                 *)
(***************************************************************************)
\* capacity of tm.queue (make(chan *CommunityTask, 100)), scaled down
QueueCap == 1
\* task ids available to SubmitCommunityTask
MaxTasks == 3

TaskStatusPending == 0
TaskStatusRunning == 1
TaskStatusComplete == 2
TaskStatusFailed == 3
DefaultWorkers == 2

\* the zero time.Time (StartTime and EndTime of a new task): January 1, year 1,
\* earlier than any clock reading less any time.Duration
ZeroTime == -100

ErrTaskNotFound == "task not found"
ErrTaskFailed == "task failed"
ErrTimeout == "timeout waiting for task completion"
ErrOnlyPending == "can only cancel pending tasks"
ErrTaskCancelled == "task cancelled"
ErrShuttingDown == "task manager shutting down"
ErrCompute == "community computation failed"

TaskIds == 1..MaxTasks
\* worker counts NewCommunityTaskManager is called with: unset (0) and 1
ConfiguredWorkers == {0, 1}
Submitters == {"s1", "s2"}
NoTask == 0

\* the worker count NewCommunityTaskManager settles on
NewCommunityTaskManager(w) == IF w <= 0 THEN DefaultWorkers ELSE w

Workers == 0..(workers - 1)
\* every index a worker goroutine can have
WorkerIds == 0..(DefaultWorkers - 1)

TaskInit ==
    /\ configured \in ConfiguredWorkers
    /\ workers = NewCommunityTaskManager(configured)
    /\ task = << >>
    /\ tasks = {}
    /\ nextTask = 0
    /\ queue = << >>
    /\ queueClosed = FALSE
    /\ ctxDone = FALSE
    /\ worker = [w \in 0..(workers - 1) |-> [pc |-> "select", task |-> NoTask]]
    /\ submitter = [p \in Submitters |->
                      [pc |-> "idle", task |-> NoTask, ret |-> nil]]
    /\ shutdownPc = "idle"
    /\ ret = nil

\* the state the task manager variables keep in the other specifications
TaskIdle ==
    /\ configured = 0 /\ workers = NewCommunityTaskManager(0)
    /\ task = << >> /\ tasks = {} /\ nextTask = 0
    /\ queue = << >> /\ queueClosed = FALSE /\ ctxDone = FALSE
    /\ worker = [w \in 0..(workers - 1) |-> [pc |-> "select", task |-> NoTask]]
    /\ submitter = [p \in Submitters |->
                      [pc |-> "idle", task |-> NoTask, ret |-> nil]]
    /\ shutdownPc = "idle" /\ ret = nil

Panicked ==
    \/ \E w \in Workers : worker[w].pc = "panicked"
    \/ \E p \in Submitters : submitter[p].pc = "panicked"

QueueHasRoomOffByOne == Len(queue) <= QueueCap

\* a send on tm.queue can proceed without blocking
QueueHasRoom == Len(queue) < QueueCap

\* ---- worker (lines 82-91) ----
\* select takes <-tm.ctx.Done(): the worker returns
WorkerExit(w) ==
    /\ ~Panicked
    /\ w \in Workers
    /\ worker[w].pc = "select"
    /\ ctxDone
    /\ worker' = [worker EXCEPT ![w].pc = "exited"]
    /\ UNCHANGED << configured, workers, task, tasks, nextTask, queue, queueClosed,
                    ctxDone, submitter, shutdownPc, ret >>
    /\ UNCHANGED nonTask

\* select takes task := <-tm.queue with a buffered task
WorkerReceive(w) ==
    /\ ~Panicked
    /\ w \in Workers
    /\ worker[w].pc = "select"
    /\ Len(queue) > 0
    /\ worker' = [worker EXCEPT ![w] = [pc |-> "received", task |-> Head(queue)]]
    /\ queue' = Tail(queue)
    /\ UNCHANGED << configured, workers, task, tasks, nextTask, queueClosed,
                    ctxDone, submitter, shutdownPc, ret >>
    /\ UNCHANGED nonTask

\* select takes task := <-tm.queue on the closed, drained channel: the zero
\* value nil is received and processTask(nil) dereferences it
WorkerReceiveClosed(w) ==
    /\ ~Panicked
    /\ w \in Workers
    /\ worker[w].pc = "select"
    /\ queueClosed /\ Len(queue) = 0
    /\ worker' = [worker EXCEPT ![w] = [pc |-> "panicked", task |-> NoTask]]
    /\ UNCHANGED << configured, workers, task, tasks, nextTask, queue, queueClosed,
                    ctxDone, submitter, shutdownPc, ret >>
    /\ UNCHANGED nonTask

\* ---- processTask (lines 94-123) ----
\* first locked block: mark as running
ProcessTaskStart(w) ==
    /\ ~Panicked
    /\ w \in Workers
    /\ worker[w].pc = "received"
    /\ task' = [task EXCEPT ![worker[w].task].Status = TaskStatusRunning,
                            ![worker[w].task].StartTime = now]
    /\ worker' = [worker EXCEPT ![w].pc = "computing"]
    /\ UNCHANGED << configured, workers, tasks, nextTask, queue, queueClosed,
                    ctxDone, submitter, shutdownPc, ret >>
    /\ UNCHANGED nonTask

ProcessTaskFinishKeepsRunning(w, failed) ==
    /\ ~Panicked
    /\ w \in Workers
    /\ worker[w].pc = "computing"
    /\ task' = [task EXCEPT ![worker[w].task].EndTime = now]
    /\ worker' = [worker EXCEPT ![w] = [pc |-> "select", task |-> NoTask]]
    /\ UNCHANGED << configured, workers, tasks, nextTask, queue, queueClosed,
                    ctxDone, submitter, shutdownPc, ret >>
    /\ UNCHANGED nonTask

\* the computation returns (with or without an error) and the second locked
\* block stores the outcome; the worker loops
ProcessTaskFinish(w, failed) ==
    /\ ~Panicked
    /\ w \in Workers
    /\ worker[w].pc = "computing"
    /\ task' = [task EXCEPT ![worker[w].task] =
                  IF failed
                  THEN [@ EXCEPT !.EndTime = now,
                                 !.Status = TaskStatusFailed, !.Error = ErrCompute]
                  ELSE [@ EXCEPT !.EndTime = now, !.Status = TaskStatusComplete,
                                 !.Result = TRUE, !.Progress = 1]]
    /\ worker' = [worker EXCEPT ![w] = [pc |-> "select", task |-> NoTask]]
    /\ UNCHANGED << configured, workers, tasks, nextTask, queue, queueClosed,
                    ctxDone, submitter, shutdownPc, ret >>
    /\ UNCHANGED nonTask

\* ---- SubmitCommunityTask (lines 126-149) ----
\* the task is built and stored in tm.tasks under tm.mu
SubmitRegister(p) ==
    /\ ~Panicked
    /\ submitter[p].pc = "idle"
    /\ nextTask < MaxTasks
    /\ nextTask' = nextTask + 1
    /\ task' = Append(task, [Status |-> TaskStatusPending, Error |-> nil,
                             Result |-> FALSE, Progress |-> 0,
                             StartTime |-> ZeroTime, EndTime |-> ZeroTime])
    /\ tasks' = tasks \cup {nextTask'}
    /\ submitter' = [submitter EXCEPT ![p] =
                       [pc |-> "select", task |-> nextTask', ret |-> nil]]
    /\ UNCHANGED << configured, workers, queue, queueClosed, ctxDone, worker,
                    shutdownPc, ret >>
    /\ UNCHANGED nonTask

\* select takes tm.queue <- task on the open channel: returns taskID, nil
SubmitEnqueue(p) ==
    /\ ~Panicked
    /\ submitter[p].pc \in {"select", "parked"}
    /\ ~queueClosed
    /\ QueueHasRoom
    /\ queue' = Append(queue, submitter[p].task)
    /\ submitter' = [submitter EXCEPT ![p] =
                       [pc |-> "idle", task |-> NoTask, ret |-> nil]]
    /\ UNCHANGED << configured, workers, task, tasks, nextTask, queueClosed,
                    ctxDone, worker, shutdownPc, ret >>
    /\ UNCHANGED nonTask

\* select takes tm.queue <- task on the closed channel: send on closed channel
SubmitSendOnClosed(p) ==
    /\ ~Panicked
    /\ submitter[p].pc \in {"select", "parked"}
    /\ queueClosed
    /\ submitter' = [submitter EXCEPT ![p].pc = "panicked"]
    /\ UNCHANGED << configured, workers, task, tasks, nextTask, queue, queueClosed,
                    ctxDone, worker, shutdownPc, ret >>
    /\ UNCHANGED nonTask

\* select takes <-tm.ctx.Done(): returns "", "task manager shutting down"
SubmitShuttingDown(p) ==
    /\ ~Panicked
    /\ submitter[p].pc \in {"select", "parked"}
    /\ ctxDone
    /\ submitter' = [submitter EXCEPT ![p] =
                       [pc |-> "idle", task |-> NoTask, ret |-> ErrShuttingDown]]
    /\ UNCHANGED << configured, workers, task, tasks, nextTask, queue, queueClosed,
                    ctxDone, worker, shutdownPc, ret >>
    /\ UNCHANGED nonTask

\* no case of the select is ready (there is no default case): the caller blocks
SubmitPark(p) ==
    /\ ~Panicked
    /\ submitter[p].pc = "select"
    /\ ~queueClosed /\ ~QueueHasRoom /\ ~ctxDone
    /\ submitter' = [submitter EXCEPT ![p].pc = "parked"]
    /\ UNCHANGED << configured, workers, task, tasks, nextTask, queue, queueClosed,
                    ctxDone, worker, shutdownPc, ret >>
    /\ UNCHANGED nonTask

\* ---- CancelTask (lines 202-219) ----
CancelTaskAlsoRunning(taskID) ==
    /\ ~Panicked
    /\ IF taskID \notin tasks
       THEN ret' = ErrTaskNotFound /\ task' = task
       ELSE IF task[taskID].Status \notin {TaskStatusPending, TaskStatusRunning}
       THEN ret' = ErrOnlyPending /\ task' = task
       ELSE /\ task' = [task EXCEPT ![taskID].Status = TaskStatusFailed,
                                    ![taskID].Error = ErrTaskCancelled]
            /\ ret' = nil
    /\ UNCHANGED << configured, workers, tasks, nextTask, queue, queueClosed,
                    ctxDone, worker, submitter, shutdownPc >>
    /\ UNCHANGED nonTask

CancelTask(taskID) ==
    /\ ~Panicked
    /\ IF taskID \notin tasks
       THEN ret' = ErrTaskNotFound /\ task' = task
       ELSE IF task[taskID].Status # TaskStatusPending
       THEN ret' = ErrOnlyPending /\ task' = task
       ELSE /\ task' = [task EXCEPT ![taskID].Status = TaskStatusFailed,
                                    ![taskID].Error = ErrTaskCancelled]
            /\ ret' = nil
    /\ UNCHANGED << configured, workers, tasks, nextTask, queue, queueClosed,
                    ctxDone, worker, submitter, shutdownPc >>
    /\ UNCHANGED nonTask

\* ---- GetTaskStatus (lines 152-174) ----
\* what a *CommunityTask handed to a caller is: a new object holding field
\* values (ref = NoTask), or the manager's own object (ref = its id)
NoView == [ref |-> NoTask, rec |-> << >>]
FieldsOf(t) == [Status |-> t.Status, StartTime |-> t.StartTime, EndTime |-> t.EndTime,
                Result |-> t.Result, Error |-> t.Error, Progress |-> t.Progress]
\* the fields a caller reads through the pointer it was handed
ReadView(v) == IF v.ref = NoTask THEN v.rec ELSE FieldsOf(task[v.ref])

GetTaskStatusShared(taskID) ==
    IF taskID \notin tasks
    THEN [task |-> NoView, err |-> ErrTaskNotFound]
    ELSE [task |-> [ref |-> taskID, rec |-> << >>], err |-> nil]

\* under tm.mu.RLock: the lookup and the field-by-field copy
GetTaskStatus(taskID) ==
    IF taskID \notin tasks
    THEN [task |-> NoView, err |-> ErrTaskNotFound]
    ELSE [task |-> [ref |-> NoTask, rec |-> FieldsOf(task[taskID])], err |-> nil]

\* ---- GetTaskResult (lines 177-199) ----
\* timeouts GetTaskResult is called with, in clock units
Timeouts == {0, 1}
NoResult == [result |-> FALSE, err |-> nil]

CallerInit ==
    /\ getter = [pc |-> "idle", id |-> NoTask, deadline |-> 0, cur |-> NoView,
                 out |-> NoResult]
    /\ removed = 0

\* deadline := time.Now().Add(timeout)
GetTaskResultCall(taskID, timeout) ==
    /\ ~Panicked
    /\ getter.pc = "idle"
    /\ getter' = [getter EXCEPT !.pc = "poll", !.id = taskID,
                                !.deadline = now + timeout, !.out = NoResult]
    /\ UNCHANGED << removed, taskVars >>
    /\ UNCHANGED nonCaller

\* task, err := tm.GetTaskStatus(taskID); if err != nil { return nil, err }
GetTaskResultPoll ==
    /\ ~Panicked
    /\ getter.pc = "poll"
    /\ LET got == GetTaskStatus(getter.id)
       IN  getter' = IF got.err # nil
                     THEN [getter EXCEPT !.pc = "idle", !.cur = got.task,
                                         !.out = [result |-> FALSE, err |-> got.err]]
                     ELSE [getter EXCEPT !.pc = "switch", !.cur = got.task]
    /\ UNCHANGED << removed, taskVars >>
    /\ UNCHANGED nonCaller

GetTaskResultSwitchNoStatusCheck ==
    /\ ~Panicked
    /\ getter.pc = "switch"
    /\ getter' = [getter EXCEPT !.pc = "idle",
                     !.out = [result |-> ReadView(getter.cur).Result, err |-> nil]]
    /\ UNCHANGED << removed, taskVars >>
    /\ UNCHANGED nonCaller

\* switch task.Status
GetTaskResultSwitch ==
    /\ ~Panicked
    /\ getter.pc = "switch"
    /\ LET t == ReadView(getter.cur)
       IN  getter' =
             IF t.Status = TaskStatusComplete
             THEN [getter EXCEPT !.pc = "idle",
                                 !.out = [result |-> t.Result, err |-> nil]]
             ELSE IF t.Status = TaskStatusFailed
             THEN [getter EXCEPT !.pc = "idle",
                                 !.out = [result |-> FALSE, err |-> ErrTaskFailed]]
             ELSE IF now > getter.deadline
             THEN [getter EXCEPT !.pc = "idle",
                                 !.out = [result |-> FALSE, err |-> ErrTimeout]]
             ELSE [getter EXCEPT !.pc = "sleep"]
    /\ UNCHANGED << removed, taskVars >>
    /\ UNCHANGED nonCaller

\* time.Sleep(100 * time.Millisecond) returns
GetTaskResultWake ==
    /\ ~Panicked
    /\ getter.pc = "sleep"
    /\ getter' = [getter EXCEPT !.pc = "poll"]
    /\ UNCHANGED << removed, taskVars >>
    /\ UNCHANGED nonCaller

\* ---- CleanupOldTasks (lines 222-237) ----
\* maxAge values CleanupOldTasks is called with, in clock units
MaxAges == {0, 1, 2}

\* the ids the loop deletes: Complete or Failed, and EndTime.Before(cutoff)
OldTasks(cutoff) ==
    { id \in tasks : /\ task[id].Status \in {TaskStatusComplete, TaskStatusFailed}
                     /\ task[id].EndTime < cutoff }

CleanupOldTasks(maxAge) ==
    /\ ~Panicked
    /\ LET cutoff == now - maxAge
       IN  /\ tasks' = tasks \ OldTasks(cutoff)
           /\ removed' = Cardinality(OldTasks(cutoff))
    /\ UNCHANGED << configured, workers, task, nextTask, queue, queueClosed,
                    ctxDone, worker, submitter, shutdownPc, ret, getter >>
    /\ UNCHANGED nonCaller

\* ---- Shutdown (lines 265-268) ----
ShutdownCancel ==
    /\ ~Panicked
    /\ shutdownPc = "idle"
    /\ ctxDone' = TRUE
    /\ shutdownPc' = "cancelled"
    /\ UNCHANGED << configured, workers, task, tasks, nextTask, queue, queueClosed,
                    worker, submitter, ret >>
    /\ UNCHANGED nonTask

ShutdownClose ==
    /\ ~Panicked
    /\ shutdownPc = "cancelled"
    /\ queueClosed' = TRUE
    /\ shutdownPc' = "done"
    /\ UNCHANGED << configured, workers, task, tasks, nextTask, queue, ctxDone,
                    worker, submitter, ret >>
    /\ UNCHANGED nonTask


(***************************************************************************)
(* engine.SessionCleanupScheduler with the TTL side of types.Session.      *)
(* Time is counted in clock units; two reads of the clock may return the   *)
(* same value.  minDelay (100 ms) and time.Hour are scaled to 2 and 4      *)
(* units: the model uses only that the floor is positive and shorter than  *)
(* the empty-heap sleep.                                                   *)
(***************************************************************************)
\* the clock stops here
MaxTime == 4
minDelay == 2
Hour == 4

SessionIds == {"a", "b"}
\* TTL and idle TTL values a session is created with (0: none)
TTLs == {0, 1, 2}

NoSession == [CreatedAt |-> 0, LastAccess |-> 0, TTL |-> 0, IdleTTL |-> 0]
NoExpiry == [expireAt |-> 0, index |-> -1]

\* ---- types.Session ----
NewSession(ttl, idleTTL) ==
    [CreatedAt |-> now, LastAccess |-> now, TTL |-> ttl, IdleTTL |-> idleTTL]

IsExpiredOf(s, t) ==
    \/ s.TTL > 0 /\ s.CreatedAt + s.TTL < t
    \/ s.IdleTTL > 0 /\ s.LastAccess + s.IdleTTL < t

\* Session.IsExpired, called at the current instant
IsExpired(id) == IsExpiredOf(sess[id], now)

GetExpireAtOfLater(s) ==
    LET absExpire == IF s.TTL > 0 THEN s.CreatedAt + s.TTL ELSE 0
        idleExpire == s.LastAccess + s.IdleTTL
    IN  IF s.IdleTTL > 0 /\ (absExpire = 0 \/ idleExpire > absExpire)
        THEN idleExpire ELSE absExpire

GetExpireAtOf(s) ==
    LET absExpire == IF s.TTL > 0 THEN s.CreatedAt + s.TTL ELSE 0
        idleExpire == s.LastAccess + s.IdleTTL
    IN  IF s.IdleTTL > 0 /\ (absExpire = 0 \/ idleExpire < absExpire)
        THEN idleExpire ELSE absExpire

GetExpireAt(id) == GetExpireAtOf(sess[id])

\* ---- expiryHeap and container/heap over it ----
\* H is [heap |-> slice of entries, expiry |-> the entries' fields];
\* positions are 0-based as in the Go code.
At(H, i) == H.heap[i + 1]

Less(H, i, j) == H.expiry[At(H, i)].expireAt < H.expiry[At(H, j)].expireAt

SwapKeepIndex(H, i, j) ==
    LET a == At(H, i)
        b == At(H, j)
    IN  [heap |-> [H.heap EXCEPT ![i + 1] = b, ![j + 1] = a], expiry |-> H.expiry]

Swap(H, i, j) ==
    LET a == At(H, i)
        b == At(H, j)
        h1 == [H.heap EXCEPT ![i + 1] = b, ![j + 1] = a]
        e1 == [H.expiry EXCEPT ![h1[i + 1]].index = i]
        e2 == [e1 EXCEPT ![h1[j + 1]].index = j]
    IN  [heap |-> h1, expiry |-> e2]

\* (j - 1) / 2 with Go's truncation toward zero
Parent(j) == IF j = 0 THEN 0 ELSE (j - 1) \div 2

RECURSIVE up(_, _)
up(H, j) ==
    LET i == Parent(j)
    IN  IF i = j \/ ~Less(H, j, i) THEN H ELSE up(Swap(H, i, j), i)

\* down returns the heap and the position the element ended at
RECURSIVE down(_, _, _)
down(H, i, n) ==
    LET j1 == 2 * i + 1
        j2 == j1 + 1
        j == IF j2 < n /\ Less(H, j2, j1) THEN j2 ELSE j1
    IN  IF j1 >= n THEN [H |-> H, i |-> i]
        ELSE IF ~Less(H, j, i) THEN [H |-> H, i |-> i]
        ELSE down(Swap(H, i, j), j, n)

\* expiryHeap.Push then up
HeapPush(H, id, expireAt) ==
    LET n == Len(H.heap)
        H1 == [heap |-> Append(H.heap, id),
               expiry |-> [H.expiry EXCEPT ![id] = [expireAt |-> expireAt, index |-> n]]]
    IN  up(H1, n)

\* expiryHeap.Pop: detach the last entry
PopLast(H) ==
    LET n == Len(H.heap)
        item == H.heap[n]
    IN  [H |-> [heap |-> SubSeq(H.heap, 1, n - 1),
                expiry |-> [H.expiry EXCEPT ![item] = NoExpiry]],
         item |-> item,
         expireAt |-> H.expiry[item].expireAt]

HeapPop(H) ==
    LET n == Len(H.heap) - 1
        H1 == Swap(H, 0, n)
    IN  PopLast(down(H1, 0, n).H)

HeapFix(H, i) ==
    LET d == down(H, i, Len(H.heap))
    IN  IF d.i > i THEN d.H ELSE up(H, i)

HeapRemove(H, i) ==
    LET n == Len(H.heap) - 1
        H1 == IF n # i
              THEN LET d == down(Swap(H, i, n), i, n)
                   IN  IF d.i > i THEN d.H ELSE up(Swap(H, i, n), i)
              ELSE H
    IN  PopLast(H1)

TheHeap == [heap |-> heap, expiry |-> expiry]

\* ---- SessionCleanupScheduler ----
\* UpdateSession as a function of the state: the new heap, entries and index
UpdateSession(sessionID, expireAt) ==
    IF sessionID \in heapIndex
    THEN LET H1 == [TheHeap EXCEPT !.expiry[sessionID].expireAt = expireAt]
         IN  [H |-> HeapFix(H1, expiry[sessionID].index), heapIndex |-> heapIndex]
    ELSE [H |-> HeapPush(TheHeap, sessionID, expireAt),
          heapIndex |-> heapIndex \cup {sessionID}]

RemoveSession(sessionID) ==
    IF sessionID \in heapIndex
    THEN [H |-> HeapRemove(TheHeap, expiry[sessionID].index).H,
          heapIndex |-> heapIndex \ {sessionID}]
    ELSE [H |-> TheHeap, heapIndex |-> heapIndex]

getNextDelayNoFloor ==
    IF Len(heap) = 0 THEN Hour
    ELSE expiry[heap[1]].expireAt - now

getNextDelay ==
    IF Len(heap) = 0 THEN Hour
    ELSE LET delay == expiry[heap[1]].expireAt - now
         IN  IF delay < minDelay THEN minDelay ELSE delay

\* the pop loop of cleanup(): every root entry with expireAt <= t, in pop order
RECURSIVE collectDue(_, _, _)
collectDue(H, idx, t) ==
    IF Len(H.heap) > 0 /\ H.expiry[H.heap[1]].expireAt <= t
    THEN LET p == HeapPop(H)
             rest == collectDue(p.H, idx \ {p.item}, t)
         IN  [rest EXCEPT !.toRemove = << p.item >> \o @]
    ELSE [H |-> H, heapIndex |-> idx, toRemove |-> << >>]

SchedInit ==
    /\ now = 0
    /\ sessions = {}
    /\ sess = [id \in SessionIds |-> NoSession]
    /\ heap = << >>
    /\ expiry = [id \in SessionIds |-> NoExpiry]
    /\ heapIndex = {}
    /\ schedPc = "loop"
    /\ wakeAt = 0
    /\ cleanNow = 0
    /\ toRemove = << >>

\* time passes
Tick ==
    /\ now < MaxTime
    /\ now' = now + 1
    /\ UNCHANGED << sessions, sess, heap, expiry, heapIndex, schedPc, wakeAt,
                    cleanNow, toRemove >>
    /\ UNCHANGED nonSched

\* run(): delay := s.getNextDelay(); timer.Reset(delay); select
RunResetTimer ==
    /\ schedPc = "loop"
    /\ wakeAt' = now + getNextDelay
    /\ schedPc' = "wait"
    /\ UNCHANGED << now, sessions, sess, heap, expiry, heapIndex, cleanNow, toRemove >>
    /\ UNCHANGED nonSched

\* case <-timer.C: cleanup() starts and reads the clock (line 119)
CleanupStart ==
    /\ schedPc = "wait"
    /\ now >= wakeAt
    /\ cleanNow' = now
    /\ schedPc' = "collect"
    /\ UNCHANGED << now, sessions, sess, heap, expiry, heapIndex, wakeAt, toRemove >>
    /\ UNCHANGED nonSched

\* cleanup(), block under s.mu (lines 121-130); with nothing popped the pass ends
CleanupCollect ==
    /\ schedPc = "collect"
    /\ LET c == collectDue(TheHeap, heapIndex, cleanNow)
       IN  /\ heap' = c.H.heap
           /\ expiry' = c.H.expiry
           /\ heapIndex' = c.heapIndex
           /\ toRemove' = c.toRemove
           /\ schedPc' = IF Len(c.toRemove) > 0 THEN "remove" ELSE "loop"
    /\ cleanNow' = 0
    /\ UNCHANGED << now, sessions, sess, wakeAt >>
    /\ UNCHANGED nonSched

CleanupRemoveNoRecheck ==
    /\ schedPc = "remove"
    /\ LET sessionID == Head(toRemove)
       IN  /\ sessions' = sessions \ {sessionID}
           /\ sess' = [sess EXCEPT ![sessionID] = NoSession]
    /\ toRemove' = Tail(toRemove)
    /\ schedPc' = IF Len(toRemove) > 1 THEN "remove" ELSE "loop"
    /\ UNCHANGED << now, heap, expiry, heapIndex, wakeAt, cleanNow >>
    /\ UNCHANGED nonSched

\* cleanup(), one iteration of the loop under engine.mu (lines 135-140);
\* after the last one engine.mu is released and run() loops
CleanupRemove ==
    /\ schedPc = "remove"
    /\ LET sessionID == Head(toRemove)
       IN  IF sessionID \in sessions /\ IsExpired(sessionID)
           THEN /\ sessions' = sessions \ {sessionID}
                /\ sess' = [sess EXCEPT ![sessionID] = NoSession]
           ELSE UNCHANGED << sessions, sess >>
    /\ toRemove' = Tail(toRemove)
    /\ schedPc' = IF Len(toRemove) > 1 THEN "remove" ELSE "loop"
    /\ UNCHANGED << now, heap, expiry, heapIndex, wakeAt, cleanNow >>
    /\ UNCHANGED nonSched

\* ---- engine operations on sessions (engine.go is not part of the sources;
\* modelled from the specification, section 4.7) ----
\* engine.mu is held by cleanup() during its removal loop
EngineMuFree == schedPc # "remove"

\* create_session: a new Session with its TTLs, registered with the scheduler
\* when it has an expiry
CreateSession(id, ttl, idleTTL) ==
    /\ EngineMuFree
    /\ id \notin sessions
    /\ sessions' = sessions \cup {id}
    /\ sess' = [sess EXCEPT ![id] = NewSession(ttl, idleTTL)]
    /\ LET expireAt == GetExpireAtOf(NewSession(ttl, idleTTL))
           u == UpdateSession(id, expireAt)
       IN  IF expireAt # 0
           THEN /\ heap' = u.H.heap
                /\ expiry' = u.H.expiry
                /\ heapIndex' = u.heapIndex
           ELSE UNCHANGED << heap, expiry, heapIndex >>
    /\ UNCHANGED << now, schedPc, wakeAt, cleanNow, toRemove >>
    /\ UNCHANGED nonSched

\* an operation on the session touches it (Session.Touch)
TouchSession(id) ==
    /\ id \in sessions
    /\ sess[id].LastAccess # now
    /\ sess' = [sess EXCEPT ![id].LastAccess = now]
    /\ UNCHANGED << now, sessions, heap, expiry, heapIndex, schedPc, wakeAt,
                    cleanNow, toRemove >>
    /\ UNCHANGED nonSched

\* drop_session: the session is deleted by hand and unregistered
DropSession(id) ==
    /\ EngineMuFree
    /\ id \in sessions
    /\ sessions' = sessions \ {id}
    /\ sess' = [sess EXCEPT ![id] = NoSession]
    /\ LET r == RemoveSession(id)
       IN  /\ heap' = r.H.heap
           /\ expiry' = r.H.expiry
           /\ heapIndex' = r.heapIndex
    /\ UNCHANGED << now, schedPc, wakeAt, cleanNow, toRemove >>
    /\ UNCHANGED nonSched

(***************************************************************************)
(* backup.WAL: LSN assignment and the flushed mark.  The WAL source is not *)
(* part of the sources; the operations follow the specification (4.4 and   *)
(* section 5: append is serialised by a single mutex owned by the WAL and  *)
(* the LSN is assigned under that lock) and the calls made by              *)
(* pkg/backup/backup_test.go.                                              *)
(***************************************************************************)
\* Append calls made in one run
MaxAppends == 4

SyncEveryWrite == "SyncEveryWrite"
SyncPeriodic == "SyncPeriodic"
SyncNever == "SyncNever"
SyncModes == {SyncEveryWrite, SyncPeriodic, SyncNever}

Appenders == {"w1", "w2"}
Unlocked == "none"
\* holder name of Sync() and of the periodic background sync
Syncer == "sync"

\* NewWAL(dir, mode) on a fresh directory
NewWAL(mode) ==
    /\ walMode = mode
    /\ currentLSN = 0
    /\ flushedLSN = 0
    /\ walMu = Unlocked
    /\ appender = [p \in Appenders |-> [pc |-> "idle", lsn |-> 0]]
    /\ returned = << >>

WalInit == \E mode \in SyncModes : NewWAL(mode)

WalIdle == NewWAL(SyncEveryWrite)

\* Append calls started so far
Started == Len(returned) + Cardinality({p \in Appenders : appender[p].pc # "idle"})

\* a caller enters Append
AppendCall(p) ==
    /\ appender[p].pc = "idle"
    /\ Started < MaxAppends
    /\ appender' = [appender EXCEPT ![p].pc = "lock"]
    /\ UNCHANGED << walMode, currentLSN, flushedLSN, walMu, returned >>
    /\ UNCHANGED nonWal

AppendLockNoMutex(p) ==
    /\ appender[p].pc = "lock"
    /\ walMu' = p
    /\ appender' = [appender EXCEPT ![p].pc = "assign"]
    /\ UNCHANGED << walMode, currentLSN, flushedLSN, returned >>
    /\ UNCHANGED nonWal

\* Append: take the WAL mutex
AppendLock(p) ==
    /\ appender[p].pc = "lock"
    /\ walMu = Unlocked
    /\ walMu' = p
    /\ appender' = [appender EXCEPT ![p].pc = "assign"]
    /\ UNCHANGED << walMode, currentLSN, flushedLSN, returned >>
    /\ UNCHANGED nonWal

\* Append: the entry's LSN is the one after the last appended
AppendAssign(p) ==
    /\ appender[p].pc = "assign"
    /\ appender' = [appender EXCEPT ![p] = [pc |-> "write", lsn |-> currentLSN + 1]]
    /\ UNCHANGED << walMode, currentLSN, flushedLSN, walMu, returned >>
    /\ UNCHANGED nonWal

AppendWriteNoSync(p) ==
    /\ appender[p].pc = "write"
    /\ currentLSN' = appender[p].lsn
    /\ appender' = [appender EXCEPT ![p].pc = "unlock"]
    /\ UNCHANGED << walMode, flushedLSN, walMu, returned >>
    /\ UNCHANGED nonWal

\* Append: the entry is written and becomes the last appended
AppendWrite(p) ==
    /\ appender[p].pc = "write"
    /\ currentLSN' = appender[p].lsn
    /\ appender' = [appender EXCEPT ![p].pc =
                        IF walMode = SyncEveryWrite THEN "fsync" ELSE "unlock"]
    /\ UNCHANGED << walMode, flushedLSN, walMu, returned >>
    /\ UNCHANGED nonWal

\* Append under SyncEveryWrite: fsync before returning
AppendFsync(p) ==
    /\ appender[p].pc = "fsync"
    /\ flushedLSN' = currentLSN
    /\ appender' = [appender EXCEPT ![p].pc = "unlock"]
    /\ UNCHANGED << walMode, currentLSN, walMu, returned >>
    /\ UNCHANGED nonWal

\* Append: release the mutex and return the LSN
AppendReturn(p) ==
    /\ appender[p].pc = "unlock"
    /\ walMu' = Unlocked
    /\ returned' = Append(returned, appender[p].lsn)
    /\ appender' = [appender EXCEPT ![p] = [pc |-> "idle", lsn |-> 0]]
    /\ UNCHANGED << walMode, currentLSN, flushedLSN >>
    /\ UNCHANGED nonWal

\* Sync(), or a round of the background fsync loop of SyncPeriodic: take the mutex
SyncLock(periodic) ==
    /\ periodic => walMode = SyncPeriodic
    /\ walMu = Unlocked
    /\ walMu' = Syncer
    /\ UNCHANGED << walMode, currentLSN, flushedLSN, appender, returned >>
    /\ UNCHANGED nonWal

\* fsync; everything appended is now flushed; release the mutex
SyncFlush ==
    /\ walMu = Syncer
    /\ flushedLSN' = currentLSN
    /\ walMu' = Unlocked
    /\ UNCHANGED << walMode, currentLSN, appender, returned >>
    /\ UNCHANGED nonWal

(***************************************************************************)
(* backup.BackupCoordinator and CreateSnapshot.  Their source is not part  *)
(* of the sources; the steps follow the specification (4.5: atomic write   *)
(* through <path>.tmp, and the two-phase coordinator) and the calls made   *)
(* by pkg/backup/critical_test.go.                                         *)
(***************************************************************************)
NoFile == -1

\* NewBackupCoordinator(wal, snapshotPath) on a directory with no snapshot
BackupInit ==
    /\ coord = [pc |-> "idle", seen |-> 0, forced |-> FALSE, lsn |-> 0,
                before |-> NoFile, err |-> "none"]
    /\ snapFile = NoFile
    /\ tmpFile = NoFile

walUntouched == << walMode, currentLSN, flushedLSN, walMu, appender, returned >>

\* Prepare: look at the WAL; a sync is needed when not everything is durable
PrepareBegin ==
    /\ coord.pc = "idle"
    /\ coord' = [coord EXCEPT !.pc = IF flushedLSN < currentLSN THEN "sync" ELSE "take",
                              !.seen = currentLSN,
                              !.forced = flushedLSN < currentLSN,
                              !.err = "none"]
    /\ UNCHANGED << snapFile, tmpFile, walUntouched >>
    /\ UNCHANGED nonBackup

\* Prepare: force a WAL sync (Sync runs under the WAL mutex)
PrepareSync ==
    /\ coord.pc = "sync"
    /\ walMu = Unlocked
    /\ flushedLSN' = currentLSN
    /\ coord' = [coord EXCEPT !.pc = "take"]
    /\ UNCHANGED << snapFile, tmpFile, walMode, currentLSN, walMu, appender, returned >>
    /\ UNCHANGED nonBackup

\* Prepare: pin the flushed LSN and return it
PrepareTake ==
    /\ coord.pc = "take"
    /\ coord' = [coord EXCEPT !.pc = "prepared", !.lsn = flushedLSN]
    /\ UNCHANGED << snapFile, tmpFile, walUntouched >>
    /\ UNCHANGED nonBackup

\* leaving Commit with an error: <path>.tmp is removed
CommitFail ==
    /\ tmpFile' = NoFile
    /\ coord' = [coord EXCEPT !.pc = "idle", !.err = "failed"]
    /\ UNCHANGED snapFile

CommitOpenCurrentLSN(ok) ==
    /\ coord.pc = "prepared"
    /\ IF ok
       THEN /\ tmpFile' = flushedLSN
            /\ coord' = [coord EXCEPT !.pc = "writing", !.before = snapFile]
            /\ UNCHANGED snapFile
       ELSE /\ UNCHANGED << snapFile, tmpFile >>
            /\ coord' = [coord EXCEPT !.pc = "idle", !.before = snapFile, !.err = "failed"]
    /\ UNCHANGED walUntouched
    /\ UNCHANGED nonBackup

\* Commit -> CreateSnapshot(path, lsn, writer): open <path>.tmp and write the
\* header carrying the prepared LSN
CommitOpen(ok) ==
    /\ coord.pc = "prepared"
    /\ IF ok
       THEN /\ tmpFile' = coord.lsn
            /\ coord' = [coord EXCEPT !.pc = "writing", !.before = snapFile]
            /\ UNCHANGED snapFile
       ELSE /\ UNCHANGED << snapFile, tmpFile >>
            /\ coord' = [coord EXCEPT !.pc = "idle", !.before = snapFile, !.err = "failed"]
    /\ UNCHANGED walUntouched
    /\ UNCHANGED nonBackup

CommitWriteLeavesTmp(ok) ==
    /\ coord.pc = "writing"
    /\ coord' = [coord EXCEPT !.pc = IF ok THEN "flushing" ELSE "idle",
                              !.err = IF ok THEN @ ELSE "failed"]
    /\ UNCHANGED << snapFile, tmpFile, walUntouched >>
    /\ UNCHANGED nonBackup

\* the writer callback writes the body
CommitWrite(ok) ==
    /\ coord.pc = "writing"
    /\ IF ok
       THEN /\ coord' = [coord EXCEPT !.pc = "flushing"]
            /\ UNCHANGED << snapFile, tmpFile >>
       ELSE CommitFail
    /\ UNCHANGED walUntouched
    /\ UNCHANGED nonBackup

\* flush and fsync of <path>.tmp
CommitFlush(ok) ==
    /\ coord.pc = "flushing"
    /\ IF ok
       THEN /\ coord' = [coord EXCEPT !.pc = "rename"]
            /\ UNCHANGED << snapFile, tmpFile >>
       ELSE CommitFail
    /\ UNCHANGED walUntouched
    /\ UNCHANGED nonBackup

\* rename <path>.tmp to <path>: the commit point
CommitRename ==
    /\ coord.pc = "rename"
    /\ snapFile' = tmpFile
    /\ tmpFile' = NoFile
    /\ coord' = [coord EXCEPT !.pc = "idle", !.err = "nil"]
    /\ UNCHANGED walUntouched
    /\ UNCHANGED nonBackup

(***************************************************************************)
(* backup.Recovery.Execute with the engine's applyFn.  Their source is not *)
(* part of the sources; the replay follows the specification (4.6): every  *)
(* entry with LSN > snapshot.LSN is applied in order, an Insert for an     *)
(* existing id acts as an Update and a Delete for a missing id does        *)
(* nothing.  The specification leaves open what an Update for a missing id *)
(* does; both readings (create it, ignore it) are covered by rUpsert.      *)
(***************************************************************************)
\* longest WAL replayed
MaxLog == 3

EntryInsert == "Insert"
EntryUpdate == "Update"
EntryDelete == "Delete"

RecordIds == {"k1", "k2"}
Payloads == {1, 2}
Absent == 0

Stores == [RecordIds -> Payloads \cup {Absent}]

\* the entries a WAL may hold at position lsn
EntriesAt(lsn) ==
    { [Type |-> t, Key |-> k, Val |-> v, LSN |-> lsn] :
          t \in {EntryInsert, EntryUpdate}, k \in RecordIds, v \in Payloads }
    \cup { [Type |-> EntryDelete, Key |-> k, Val |-> Absent, LSN |-> lsn] : k \in RecordIds }

\* WALs of exactly n entries with LSNs 1..n
RECURSIVE LogsOfLen(_)
LogsOfLen(n) ==
    IF n = 0 THEN { << >> }
    ELSE { Append(l, e) : l \in LogsOfLen(n - 1), e \in EntriesAt(n) }

Logs == UNION { LogsOfLen(n) : n \in 0..MaxLog }

applyFnStrict(st, e, upsert) ==
    IF e.Type = EntryInsert
    THEN IF st[e.Key] # Absent
         THEN [store |-> st, err |-> "conflict"]
         ELSE [store |-> [st EXCEPT ![e.Key] = e.Val], err |-> "nil"]
    ELSE IF e.Type = EntryUpdate
    THEN [store |-> IF st[e.Key] # Absent \/ upsert THEN [st EXCEPT ![e.Key] = e.Val] ELSE st,
          err |-> "nil"]
    ELSE [store |-> [st EXCEPT ![e.Key] = Absent], err |-> "nil"]

\* applyFn(entry) on the state
applyFn(st, e, upsert) ==
    IF e.Type = EntryInsert
    THEN [store |-> [st EXCEPT ![e.Key] = e.Val], err |-> "nil"]
    ELSE IF e.Type = EntryUpdate
    THEN [store |-> IF st[e.Key] # Absent \/ upsert THEN [st EXCEPT ![e.Key] = e.Val] ELSE st,
          err |-> "nil"]
    ELSE [store |-> [st EXCEPT ![e.Key] = Absent], err |-> "nil"]

\* step 2 of Execute from entry i on: apply each entry with LSN > snapshot.LSN,
\* stopping at the first error
RECURSIVE replayFrom(_, _, _, _, _)
replayFrom(st, log, i, snapLSN, upsert) ==
    IF i > Len(log) THEN [store |-> st, err |-> "nil", applied |-> 0]
    ELSE IF log[i].LSN <= snapLSN THEN replayFrom(st, log, i + 1, snapLSN, upsert)
    ELSE LET r == applyFn(st, log[i], upsert)
         IN  IF r.err # "nil" THEN [store |-> r.store, err |-> r.err, applied |-> 0]
             ELSE LET rest == replayFrom(r.store, log, i + 1, snapLSN, upsert)
                  IN  [rest EXCEPT !.applied = @ + 1]

\* the state restoreFn rebuilt from the snapshot, and the plan's WAL
RecoveryInit ==
    /\ rStore \in Stores
    /\ rLog \in Logs
    /\ rSnapLSN \in 0..Len(rLog)
    /\ rUpsert \in BOOLEAN
    /\ rPass = 0
    /\ rOnce = rStore
    /\ rErr = "nil"

RecoveryIdle ==
    /\ rStore = [k \in RecordIds |-> Absent]
    /\ rLog = << >>
    /\ rSnapLSN = 0
    /\ rUpsert = FALSE
    /\ rPass = 0
    /\ rOnce = rStore
    /\ rErr = "nil"

\* Execute(plan, restoreFn, applyFn), WAL part; run a second time on its own result
Execute ==
    /\ rPass < 2
    /\ rErr = "nil"
    /\ LET r == replayFrom(rStore, rLog, 1, rSnapLSN, rUpsert)
       IN  /\ rStore' = r.store
           /\ rErr' = r.err
           /\ rOnce' = IF rPass = 0 THEN r.store ELSE rOnce
    /\ rPass' = rPass + 1
    /\ UNCHANGED << rLog, rSnapLSN, rUpsert >>
    /\ UNCHANGED nonRecovery

(***************************************************************************)
(* The WAL directory as Append writes it and backup.ReadEntries reads it.  *)
(* Their source is not part of the sources; the entry layout, the          *)
(* rotation of segments and the reader follow the specification (4.4) and  *)
(* the calls made by pkg/backup/backup_test.go.  The segment threshold     *)
(* (64 MiB) is scaled to a number of entries and xxHash64 to a small sum.  *)
(***************************************************************************)
\* entries a segment holds before the WAL rotates
SegmentCap == 2

TypeCode(t) == IF t = EntryInsert THEN 1 ELSE IF t = EntryUpdate THEN 2 ELSE 3
TypeOfCode(c) == IF c = 1 THEN EntryInsert ELSE IF c = 2 THEN EntryUpdate ELSE EntryDelete
KeyBytes(k) == IF k = "k1" THEN 1 ELSE 2
KeyOfBytes(b) == IF b = 1 THEN "k1" ELSE "k2"

\* checksum over the preceding fields of the entry
Checksum(type, lsn, key, payload) == (3 * type + 5 * lsn + 7 * key + 11 * payload) % 13

\* [type][LSN][key][payload][checksum]
Encode(e) ==
    << TypeCode(e.Type), e.LSN, KeyBytes(e.Key), e.Val,
       Checksum(TypeCode(e.Type), e.LSN, KeyBytes(e.Key), e.Val) >>

Decode(r) == [Type |-> TypeOfCode(r[1]), Key |-> KeyOfBytes(r[3]), Val |-> r[4], LSN |-> r[2]]

ChecksumOk(r) == r[5] = Checksum(r[1], r[2], r[3], r[4])

\* Append writes the encoded entry to the last segment, opening a new one
\* when the last is full
WriteEntry(segs, e) ==
    IF Len(segs) = 0 \/ Len(segs[Len(segs)]) >= SegmentCap
    THEN Append(segs, << Encode(e) >>)
    ELSE [segs EXCEPT ![Len(segs)] = Append(@, Encode(e))]

\* all records of the directory, segment after segment
RECURSIVE Records(_)
Records(segs) == IF Len(segs) = 0 THEN << >> ELSE Head(segs) \o Records(Tail(segs))

\* the records up to the first one whose checksum does not verify
RECURSIVE ValidPrefix(_)
ValidPrefix(recs) ==
    IF Len(recs) = 0 \/ ~ChecksumOk(Head(recs)) THEN << >>
    ELSE << Head(recs) >> \o ValidPrefix(Tail(recs))

RECURSIVE DecodeAll(_)
DecodeAll(recs) ==
    IF Len(recs) = 0 THEN << >> ELSE << Decode(Head(recs)) >> \o DecodeAll(Tail(recs))

FromLSNExclusive(e, fromLSN) == e.LSN > fromLSN

FromLSN(e, fromLSN) == e.LSN >= fromLSN

\* ReadEntries(dir, fromLSN)
ReadEntries(segs, fromLSN) ==
    LET wanted(e) == FromLSN(e, fromLSN)
    IN  SelectSeq(DecodeAll(ValidPrefix(Records(segs))), wanted)

\* an empty directory
ReadInit ==
    /\ dSegments = << >>
    /\ dAppended = << >>
    /\ dFrom = 0
    /\ dOut = << >>
    /\ dErr = "none"

\* wal.Append(type, key, payload) on the directory
AppendEntry(e) ==
    /\ Len(dAppended) < MaxLog
    /\ e.LSN = Len(dAppended) + 1
    /\ dSegments' = WriteEntry(dSegments, e)
    /\ dAppended' = Append(dAppended, e)
    /\ UNCHANGED << dFrom, dOut, dErr >>
    /\ UNCHANGED nonRead

\* entries, err := ReadEntries(dir, fromLSN)
ReadEntriesCall(fromLSN) ==
    /\ dFrom' = fromLSN
    /\ dOut' = ReadEntries(dSegments, fromLSN)
    /\ dErr' = "nil"
    /\ UNCHANGED << dSegments, dAppended >>
    /\ UNCHANGED nonRead

(***************************************************************************)
(* types.IDGenerator.  Every method is one or several atomic operations on *)
(* the uint64 idCounters; the idCounters stay far below 2^64 here.             *)
(***************************************************************************)
\* Next...ID calls made in one run
MaxIds == 3

Kinds == {"document", "textunit", "entity", "relationship", "community", "query"}

\* the keys RestoreState looks up
RestoreStateKeys == {"document", "textunit", "entity", "relationship", "community"}

ZeroCounters == [k \in Kinds |-> 0]

\* NewIDGenerator()
IdInit ==
    /\ idCounters = ZeroCounters
    /\ issued = [k \in Kinds |-> << >>]
    /\ captured = ZeroCounters
    /\ haveCapture = FALSE
    /\ rebuilt = FALSE
    /\ lastOp = "none"

RECURSIVE SumLen(_, _)
SumLen(f, ks) ==
    IF ks = {} THEN 0
    ELSE LET k == CHOOSE x \in ks : TRUE IN Len(f[k]) + SumLen(f, ks \ {k})

NextIDFetchThenAdd(kind) ==
    /\ SumLen(issued, Kinds) < MaxIds
    /\ idCounters' = [idCounters EXCEPT ![kind] = @ + 1]
    /\ issued' = [issued EXCEPT ![kind] = Append(@, idCounters[kind])]
    /\ lastOp' = "Next"
    /\ UNCHANGED << captured, haveCapture, rebuilt >>
    /\ UNCHANGED nonId

\* NextDocumentID ... NextQueryID: atomic.AddUint64(&counter, 1) returns the new value
NextID(kind) ==
    /\ SumLen(issued, Kinds) < MaxIds
    /\ idCounters' = [idCounters EXCEPT ![kind] = @ + 1]
    /\ issued' = [issued EXCEPT ![kind] = Append(@, idCounters[kind] + 1)]
    /\ lastOp' = "Next"
    /\ UNCHANGED << captured, haveCapture, rebuilt >>
    /\ UNCHANGED nonId

GetCounters ==
    /\ captured' = idCounters
    /\ haveCapture' = TRUE
    /\ lastOp' = "GetCounters"
    /\ UNCHANGED << idCounters, issued, rebuilt >>
    /\ UNCHANGED nonId

\* a restart: the generator is a new one
NewIDGenerator ==
    /\ haveCapture
    /\ idCounters' = ZeroCounters
    /\ rebuilt' = TRUE
    /\ lastOp' = "NewIDGenerator"
    /\ UNCHANGED << issued, captured, haveCapture >>
    /\ UNCHANGED nonId

\* SetCounters(doc, tu, ent, rel, comm, query) with the captured values
SetCounters ==
    /\ haveCapture
    /\ idCounters' = captured
    /\ rebuilt' = TRUE
    /\ lastOp' = "SetCounters"
    /\ UNCHANGED << issued, captured, haveCapture >>
    /\ UNCHANGED nonId

\* RestoreState(state) with a map holding the captured value of every kind
RestoreState ==
    /\ haveCapture
    /\ idCounters' = [k \in Kinds |-> IF k \in RestoreStateKeys THEN captured[k] ELSE idCounters[k]]
    /\ rebuilt' = TRUE
    /\ lastOp' = "RestoreState"
    /\ UNCHANGED << issued, captured, haveCapture >>
    /\ UNCHANGED nonId

(***************************************************************************)
(* The scheduler's own interface driven directly: UpdateSession and        *)
(* RemoveSession with any id and deadline, and cleanup passes at any clock *)
(* reading, over more ids than the engine scenario above uses, so that the *)
(* heap has several levels.  The engine holds none of these sessions, so   *)
(* the removal loop of cleanup() finds nothing to delete.                  *)
(***************************************************************************)
\* largest expireAt passed to UpdateSession
MaxExpire == 3

HeapIds == {"a", "b", "c", "d"}

HeapInit ==
    /\ now = 0
    /\ sessions = {}
    /\ sess = [id \in SessionIds |-> NoSession]
    /\ heap = << >>
    /\ expiry = [id \in HeapIds |-> NoExpiry]
    /\ heapIndex = {}
    /\ schedPc = "loop"
    /\ wakeAt = 0
    /\ cleanNow = 0
    /\ toRemove = << >>

engineUntouched == << now, sessions, sess, schedPc, wakeAt, cleanNow, toRemove >>

\* s.UpdateSession(sessionID, expireAt)
CallUpdateSession(sessionID, expireAt) ==
    /\ LET u == UpdateSession(sessionID, expireAt)
       IN  /\ heap' = u.H.heap
           /\ expiry' = u.H.expiry
           /\ heapIndex' = u.heapIndex
    /\ UNCHANGED engineUntouched
    /\ UNCHANGED nonSched

\* s.RemoveSession(sessionID)
CallRemoveSession(sessionID) ==
    /\ LET r == RemoveSession(sessionID)
       IN  /\ heap' = r.H.heap
           /\ expiry' = r.H.expiry
           /\ heapIndex' = r.heapIndex
    /\ UNCHANGED engineUntouched
    /\ UNCHANGED nonSched

\* s.cleanup() with the clock reading t and none of the popped sessions in
\* the engine
CleanupPass(t) ==
    /\ LET c == collectDue(TheHeap, heapIndex, t)
       IN  /\ heap' = c.H.heap
           /\ expiry' = c.H.expiry
           /\ heapIndex' = c.heapIndex
    /\ UNCHANGED engineUntouched
    /\ UNCHANGED nonSched

(***************************************************************************)
(* shutdown.Handler.  Shutdown can be entered by the goroutine Start       *)
(* launches (on a signal) and by a direct call; each hook runs in its own  *)
(* goroutine and may never return.  Closing h.done a second time panics.   *)
(***************************************************************************)
HookNames == {"h1", "h2", "h3"}
HookPriorities == {1, 2}
\* the callers of Shutdown: the signal goroutine of Start, and a direct call
Runs == {"signal", "call"}

\* Register's pass from position i down: swap while the entry is out of order
\* with its predecessor (positions are 0-based)
RECURSIVE sortPass(_, _)
sortPass(hs, i) ==
    IF i <= 0 THEN hs
    ELSE IF hs[i + 1].Priority < hs[i].Priority
         THEN sortPass([hs EXCEPT ![i + 1] = hs[i], ![i] = hs[i + 1]], i - 1)
         ELSE sortPass(hs, i - 1)

\* priorities of the hooks, ascending, each once
RECURSIVE sortedPriorities(_)
sortedPriorities(ps) ==
    IF ps = {} THEN << >>
    ELSE LET least == CHOOSE x \in ps : \A y \in ps : x <= y
         IN  << least >> \o sortedPriorities(ps \ {least})

HooksOf(hs) == { hs[i] : i \in 1..Len(hs) }
\* priorityGroups[priority], as names
Group(hs, priority) == { x.Name : x \in { y \in HooksOf(hs) : y.Priority = priority } }

IdleRun == [pc |-> "idle", hooks |-> << >>, priorities |-> << >>,
            st |-> [n \in HookNames |-> "none"], expired |-> FALSE]

\* NewHandler()
ShutdownInit ==
    /\ hooks = << >>
    /\ started = FALSE
    /\ doneClosed = FALSE
    /\ sdPanic = FALSE
    /\ run = [r \in Runs |-> IdleRun]

\* Register(name, priority, fn)
Register(name, priority) ==
    /\ ~sdPanic
    /\ \A x \in HooksOf(hooks) : x.Name # name
    /\ hooks' = sortPass(Append(hooks, [Name |-> name, Priority |-> priority]), Len(hooks))
    /\ UNCHANGED << started, doneClosed, sdPanic, run >>
    /\ UNCHANGED nonShutdown

\* Start(): registers for the signals and launches the goroutine
Start ==
    /\ ~sdPanic
    /\ ~started
    /\ started' = TRUE
    /\ UNCHANGED << hooks, doneClosed, sdPanic, run >>
    /\ UNCHANGED nonShutdown

\* Shutdown(): copy the hooks under h.mu, group them and sort the priorities
ShutdownBegin(r) ==
    /\ ~sdPanic
    /\ run[r].pc = "idle"
    /\ r = "signal" => started
    /\ LET ps == sortedPriorities({ x.Priority : x \in HooksOf(hooks) })
       IN  run' = [run EXCEPT ![r] = [pc |-> IF Len(ps) = 0 THEN "close" ELSE "group",
                                      hooks |-> hooks,
                                      priorities |-> ps,
                                      st |-> [n \in HookNames |-> "none"],
                                      expired |-> FALSE]]
    /\ UNCHANGED << hooks, started, doneClosed, sdPanic >>
    /\ UNCHANGED nonShutdown

\* one round of the priority loop: wg.Add and go func for every hook of the group
StartGroup(r) ==
    /\ ~sdPanic
    /\ run[r].pc = "group"
    /\ LET g == Group(run[r].hooks, Head(run[r].priorities))
       IN  run' = [run EXCEPT ![r].pc = "wait",
                              ![r].st = [n \in HookNames |->
                                            IF n \in g THEN "spawned" ELSE run[r].st[n]]]
    /\ UNCHANGED << hooks, started, doneClosed, sdPanic >>
    /\ UNCHANGED nonShutdown

\* the hook's goroutine calls h.Fn(ctx)
HookRun(r, n) ==
    /\ ~sdPanic
    /\ run[r].st[n] = "spawned"
    /\ run' = [run EXCEPT ![r].st[n] = "running"]
    /\ UNCHANGED << hooks, started, doneClosed, sdPanic >>
    /\ UNCHANGED nonShutdown

\* h.Fn returns (with or without an error); wg.Done
HookReturn(r, n, failed) ==
    /\ ~sdPanic
    /\ run[r].st[n] = "running"
    /\ run' = [run EXCEPT ![r].st[n] = IF failed THEN "errored" ELSE "returned"]
    /\ UNCHANGED << hooks, started, doneClosed, sdPanic >>
    /\ UNCHANGED nonShutdown

\* the deadline of context.WithTimeout(context.Background(), h.timeout) passes;
\* the context is handed to the hooks and read by nothing else
CtxExpire(r) ==
    /\ ~sdPanic
    /\ run[r].pc \notin {"idle", "done"}
    /\ ~run[r].expired
    /\ run' = [run EXCEPT ![r].expired = TRUE]
    /\ UNCHANGED << hooks, started, doneClosed, sdPanic >>
    /\ UNCHANGED nonShutdown

GroupDoneStopsOnError(r) ==
    /\ ~sdPanic
    /\ run[r].pc = "wait"
    /\ \A n \in Group(run[r].hooks, Head(run[r].priorities)) :
          run[r].st[n] \in {"returned", "errored"}
    /\ run' = [run EXCEPT ![r].priorities = Tail(@),
                          ![r].pc = IF /\ Len(run[r].priorities) > 1
                                       /\ \A n \in HookNames : run[r].st[n] # "errored"
                                    THEN "group" ELSE "close"]
    /\ UNCHANGED << hooks, started, doneClosed, sdPanic >>
    /\ UNCHANGED nonShutdown

GroupDoneNoWait(r) ==
    /\ ~sdPanic
    /\ run[r].pc = "wait"
    /\ run' = [run EXCEPT ![r].priorities = Tail(@),
                          ![r].pc = IF Len(run[r].priorities) > 1 THEN "group" ELSE "close"]
    /\ UNCHANGED << hooks, started, doneClosed, sdPanic >>
    /\ UNCHANGED nonShutdown

\* wg.Wait() returns once every hook of the group has returned
GroupDone(r) ==
    /\ ~sdPanic
    /\ run[r].pc = "wait"
    /\ \A n \in Group(run[r].hooks, Head(run[r].priorities)) :
          run[r].st[n] \in {"returned", "errored"}
    /\ run' = [run EXCEPT ![r].priorities = Tail(@),
                          ![r].pc = IF Len(run[r].priorities) > 1 THEN "group" ELSE "close"]
    /\ UNCHANGED << hooks, started, doneClosed, sdPanic >>
    /\ UNCHANGED nonShutdown

\* close(errors), collect them, close(h.done)
ShutdownFinish(r) ==
    /\ ~sdPanic
    /\ run[r].pc = "close"
    /\ run' = [run EXCEPT ![r].pc = "done"]
    /\ IF doneClosed
       THEN sdPanic' = TRUE /\ UNCHANGED doneClosed
       ELSE doneClosed' = TRUE /\ UNCHANGED sdPanic
    /\ UNCHANGED << hooks, started >>
    /\ UNCHANGED nonShutdown

(***************************************************************************)
(* memory.LRUCache.  Every method holds c.mu for its whole body and is one *)
(* step.  c.order is a container/list: PushFront, MoveToFront, Remove and  *)
(* Back act on the sequence of its elements, front first.                  *)
(***************************************************************************)
\* largest capacity NewLRUCache is called with
MaxLruCap == 2
\* number of calls made on the cache
MaxLruCalls == 5
LruKeys == {"k1", "k2", "k3", "k4"}
LruValues == {"a", "b"}
LruSizes == {10}
NoValue == "nil"

\* position of the element of key in the list (0 when there is none)
ElemOf(l, key) ==
    IF \E i \in 1..Len(l) : l[i].key = key
    THEN CHOOSE i \in 1..Len(l) : l[i].key = key
    ELSE 0

\* list.Remove(elem)
ListRemove(l, i) == SubSeq(l, 1, i - 1) \o SubSeq(l, i + 1, Len(l))
\* list.MoveToFront(elem)
MoveToFront(l, i) == << l[i] >> \o ListRemove(l, i)
\* list.PushFront(entry)
PushFront(l, e) == << e >> \o l

\* NewLRUCache(capacity)
LruInit ==
    /\ capacity \in 0..MaxLruCap
    /\ items = {}
    /\ order = << >>
    /\ hits = 0 /\ misses = 0
    /\ lruRet = << >>
    /\ lruCalls = 0
    /\ lastUse = [k \in LruKeys |-> 0]

\* the state the cache keeps in the other specifications
LruIdle ==
    /\ capacity = 0
    /\ items = {}
    /\ order = << >>
    /\ hits = 0 /\ misses = 0
    /\ lruRet = << >>
    /\ lruCalls = 0
    /\ lastUse = [k \in LruKeys |-> 0]

GetNoMove(key) ==
    /\ lruCalls < MaxLruCalls
    /\ lruCalls' = lruCalls + 1
    /\ IF key \in items
       THEN /\ hits' = hits + 1
            /\ lruRet' = << order[ElemOf(order, key)].value, TRUE >>
            /\ lastUse' = [lastUse EXCEPT ![key] = lruCalls']
            /\ UNCHANGED << order, misses >>
       ELSE /\ misses' = misses + 1
            /\ lruRet' = << NoValue, FALSE >>
            /\ UNCHANGED << order, hits, lastUse >>
    /\ UNCHANGED << capacity, items >>
    /\ UNCHANGED nonLru

\* Get(key)
Get(key) ==
    /\ lruCalls < MaxLruCalls
    /\ lruCalls' = lruCalls + 1
    /\ IF key \in items
       THEN /\ order' = MoveToFront(order, ElemOf(order, key))
            /\ hits' = hits + 1
            /\ lruRet' = << order[ElemOf(order, key)].value, TRUE >>
            /\ lastUse' = [lastUse EXCEPT ![key] = lruCalls']
            /\ UNCHANGED misses
       ELSE /\ misses' = misses + 1
            /\ lruRet' = << NoValue, FALSE >>
            /\ UNCHANGED << order, hits, lastUse >>
    /\ UNCHANGED << capacity, items >>
    /\ UNCHANGED nonLru

\* removeElement(elem): out of the list and out of the map
removeElement(l, m, i) == [order |-> ListRemove(l, i), items |-> m \ {l[i].key}]

\* evictOldest(): removeElement(c.order.Back()) unless the list is empty
evictOldest(l, m) ==
    IF Len(l) = 0 THEN [order |-> l, items |-> m] ELSE removeElement(l, m, Len(l))

\* Put(key, value, size)
Put(key, value, size) ==
    /\ lruCalls < MaxLruCalls
    /\ lruCalls' = lruCalls + 1
    /\ lastUse' = [lastUse EXCEPT ![key] = lruCalls']
    /\ lruRet' = << >>
    /\ IF key \in items
       THEN LET i == ElemOf(order, key)
            IN  /\ order' = << [key |-> key, value |-> value, size |-> size] >>
                                \o ListRemove(order, i)
                /\ UNCHANGED items
       ELSE LET c == IF capacity > 0 /\ Len(order) >= capacity
                     THEN evictOldest(order, items)
                     ELSE [order |-> order, items |-> items]
            IN  /\ order' = PushFront(c.order,
                                      [key |-> key, value |-> value, size |-> size])
                /\ items' = c.items \cup {key}
    /\ UNCHANGED << capacity, hits, misses >>
    /\ UNCHANGED nonLru

\* Remove(key)
Remove(key) ==
    /\ lruCalls < MaxLruCalls
    /\ lruCalls' = lruCalls + 1
    /\ IF key \in items
       THEN LET c == removeElement(order, items, ElemOf(order, key))
            IN  order' = c.order /\ items' = c.items /\ lruRet' = << TRUE >>
       ELSE UNCHANGED << order, items >> /\ lruRet' = << FALSE >>
    /\ UNCHANGED << capacity, hits, misses, lastUse >>
    /\ UNCHANGED nonLru

\* Clear()
Clear ==
    /\ lruCalls < MaxLruCalls
    /\ lruCalls' = lruCalls + 1
    /\ items' = {}
    /\ order' = << >>
    /\ lruRet' = << >>
    /\ UNCHANGED << capacity, hits, misses, lastUse >>
    /\ UNCHANGED nonLru

\* the loop of EvictOldest(count): evictOldest while i < count and the list is
\* not empty
RECURSIVE evictLoop(_, _, _, _)
evictLoop(l, m, i, count) ==
    IF i < count /\ Len(l) > 0
    THEN LET c == evictOldest(l, m)
             r == evictLoop(c.order, c.items, i + 1, count)
         IN  [order |-> r.order, items |-> r.items, evicted |-> r.evicted + 1]
    ELSE [order |-> l, items |-> m, evicted |-> 0]

\* EvictOldest(count)
EvictOldest(count) ==
    /\ lruCalls < MaxLruCalls
    /\ lruCalls' = lruCalls + 1
    /\ LET r == evictLoop(order, items, 0, count)
       IN  order' = r.order /\ items' = r.items /\ lruRet' = << r.evicted >>
    /\ UNCHANGED << capacity, hits, misses, lastUse >>
    /\ UNCHANGED nonLru

(***************************************************************************)
(* simd.CosineSimilarity.  A float32 or float64 value is a sign, a         *)
(* mantissa of MantBits bits and a binary exponent (s * m * 2^e), or zero, *)
(* an infinity or a NaN; every operation truncates its result to MantBits  *)
(* bits, where the hardware rounds to 24 or 53 bits.  The exponent ranges  *)
(* are those of the hardware.  On amd64 the conversion of a float64 beyond *)
(* the float32 range yields an infinity (CVTSD2SS).                        *)
(***************************************************************************)
\* bits kept in a mantissa
MantBits == 15

RECURSIVE Pow2(_)
Pow2(n) == IF n = 0 THEN 1 ELSE 2 * Pow2(n - 1)

Zero == [k |-> "zero", s |-> 0, m |-> 0, e |-> 0]
NaN == [k |-> "nan", s |-> 0, m |-> 0, e |-> 0]
Inf(s) == [k |-> "inf", s |-> s, m |-> 0, e |-> 0]
NoOut == [k |-> "none", s |-> 0, m |-> 0, e |-> 0]

\* s * m * 2^e with the mantissa brought to MantBits bits
RECURSIVE Normalize(_, _, _)
Normalize(s, m, e) ==
    IF m = 0 THEN Zero
    ELSE IF m >= Pow2(MantBits) THEN Normalize(s, m \div 2, e + 1)
    ELSE IF m < Pow2(MantBits - 1) THEN Normalize(s, m * 2, e - 1)
    ELSE [k |-> "num", s |-> s, m |-> m, e |-> e]

\* float32(n) of a small integer
FromInt(n) == Normalize(IF n < 0 THEN -1 ELSE 1, IF n < 0 THEN -n ELSE n, 0)

FNeg(f) == [f EXCEPT !.s = -f.s]

\* x * y
FMul(f, g) ==
    IF f.k = "nan" \/ g.k = "nan" THEN NaN
    ELSE IF f.k = "inf" \/ g.k = "inf"
         THEN IF f.k = "zero" \/ g.k = "zero" THEN NaN ELSE Inf(f.s * g.s)
    ELSE IF f.k = "zero" \/ g.k = "zero" THEN Zero
    ELSE Normalize(f.s * g.s, f.m * g.m, f.e + g.e)

\* x + y
FAdd(f, g) ==
    IF f.k = "nan" \/ g.k = "nan" THEN NaN
    ELSE IF f.k = "inf" /\ g.k = "inf" THEN (IF f.s = g.s THEN f ELSE NaN)
    ELSE IF f.k = "inf" THEN f
    ELSE IF g.k = "inf" THEN g
    ELSE IF f.k = "zero" THEN g
    ELSE IF g.k = "zero" THEN f
    ELSE IF f.e - g.e > MantBits THEN f
    ELSE IF g.e - f.e > MantBits THEN g
    ELSE LET lo == IF f.e <= g.e THEN f.e ELSE g.e
             sum == f.s * f.m * Pow2(f.e - lo) + g.s * g.m * Pow2(g.e - lo)
         IN  Normalize(IF sum < 0 THEN -1 ELSE 1, IF sum < 0 THEN -sum ELSE sum, lo)

\* x - y
FSub(f, g) == FAdd(f, FNeg(g))

\* x / y
FDiv(f, g) ==
    IF f.k = "nan" \/ g.k = "nan" THEN NaN
    ELSE IF f.k = "inf"
         THEN IF g.k = "inf" THEN NaN ELSE Inf(IF g.s < 0 THEN -f.s ELSE f.s)
    ELSE IF g.k = "inf" THEN Zero
    ELSE IF g.k = "zero" THEN (IF f.k = "zero" THEN NaN ELSE Inf(f.s))
    ELSE IF f.k = "zero" THEN Zero
    ELSE Normalize(f.s * g.s, (f.m * Pow2(MantBits)) \div g.m, f.e - g.e - MantBits)

\* the integer square root, by Newton's iteration from above
RECURSIVE sqrtIter(_, _)
sqrtIter(n, x) ==
    LET y == (x + n \div x) \div 2
    IN  IF y >= x THEN x ELSE sqrtIter(n, y)

\* math.Sqrt(x)
Sqrt(f) ==
    IF f.k = "zero" THEN Zero
    ELSE IF f.k = "nan" \/ f.s < 0 THEN NaN
    ELSE IF f.k = "inf" THEN f
    ELSE LET sh == IF (f.e - MantBits) % 2 = 0 THEN MantBits ELSE MantBits - 1
         IN  Normalize(1, sqrtIter(f.m * Pow2(sh), Pow2(MantBits)), (f.e - sh) \div 2)

\* float32(x) of a float64: beyond 2^128 an infinity, below 2^-149 zero
ToFloat32(f) ==
    IF f.k # "num" THEN f
    ELSE IF f.e + MantBits - 1 >= 128 THEN Inf(f.s)
    ELSE IF f.e + MantBits <= -149 THEN Zero
    ELSE f

\* int64(x) of a float64: the integer part (the model keeps |x| below 2^30)
Int64Of(f) ==
    IF f.k # "num" THEN 0
    ELSE IF f.e >= 0 THEN f.s * f.m * Pow2(f.e)
    ELSE IF -f.e >= MantBits THEN 0
    ELSE f.s * (f.m \div Pow2(-f.e))

\* x < y for magnitudes
AbsLess(f, g) ==
    IF f.k = "zero" THEN g.k # "zero"
    ELSE IF f.k # "num" \/ g.k # "num" THEN FALSE
    ELSE f.e < g.e \/ (f.e = g.e /\ f.m < g.m)

\* the constant 0x5fe6eb50c7b537a9 of fastSqrt, in three limbs of 21 bits
MagicHi == 1571258
MagicMid == 1738301
MagicLo == 1390505
LimbBits == 21

\* float64(0x5fe6eb50c7b537a9 - n) for 0 <= n < 2^21
MagicMinus(n) ==
    LET b1 == IF MagicLo < n THEN 1 ELSE 0
        lo == MagicLo - n + b1 * Pow2(LimbBits)
        b2 == IF MagicMid < b1 THEN 1 ELSE 0
        mid == MagicMid - b1 + b2 * Pow2(LimbBits)
        hi == MagicHi - b2
    IN  FAdd(FAdd(Normalize(1, hi, 2 * LimbBits), Normalize(1, mid, LimbBits)),
             Normalize(1, lo, 0))

\* fastSqrt(x): int64(x) and float64(i) convert the value, they do not
\* reinterpret its bits
fastSqrt(x) ==
    IF x.k = "zero" \/ x.s < 0 THEN Zero
    ELSE LET half == FMul(x, Normalize(1, 1, -1))
             y0 == MagicMinus(Int64Of(x) \div 2)
             y1 == FMul(y0, FSub(Normalize(1, 3, -1), FMul(FMul(half, y0), y0)))
         IN  FMul(x, y1)

\* float32Sqrt(x)
float32Sqrt(x) == ToFloat32(fastSqrt(x))

\* the loop body shared by both implementations, over a[from..to]:
\* dot += a[i]*b[i]; normA += a[i]*a[i]; normB += b[i]*b[i]
RECURSIVE Accumulate(_, _, _, _, _)
Accumulate(a, b, from, to, acc) ==
    IF from > to THEN acc
    ELSE Accumulate(a, b, from + 1, to,
            [dot |-> ToFloat32(FAdd(acc.dot, FMul(FromInt(a[from]), FromInt(b[from])))),
             normA |-> ToFloat32(FAdd(acc.normA, FMul(FromInt(a[from]), FromInt(a[from])))),
             normB |-> ToFloat32(FAdd(acc.normB, FMul(FromInt(b[from]), FromInt(b[from]))))])

NoSums == [dot |-> Zero, normA |-> Zero, normB |-> Zero]

cosineSimilarityScalar(a, b) ==
    IF Len(a) # Len(b) THEN Zero
    ELSE LET acc == Accumulate(a, b, 1, Len(a), NoSums)
         IN  IF acc.normA.k = "zero" \/ acc.normB.k = "zero" THEN Zero
             ELSE ToFloat32(FDiv(acc.dot,
                      ToFloat32(FMul(ToFloat32(Sqrt(acc.normA)),
                                     ToFloat32(Sqrt(acc.normB))))))

\* the blocks of 8 first, then the remaining elements
cosineSimilarityAVX2(a, b) ==
    IF Len(a) # Len(b) THEN Zero
    ELSE LET n == Len(a)
             blocks == Accumulate(a, b, 1, 8 * (n \div 8), NoSums)
             acc == Accumulate(a, b, 8 * (n \div 8) + 1, n, blocks)
         IN  IF acc.normA.k = "zero" \/ acc.normB.k = "zero" THEN Zero
             ELSE ToFloat32(FDiv(acc.dot,
                      ToFloat32(FMul(float32Sqrt(acc.normA), float32Sqrt(acc.normB)))))

hasAVX2 == hasAVX2Check

CosineSimilarity(a, b) ==
    IF Len(a) # Len(b) THEN Zero
    ELSE IF hasAVX2 /\ Len(a) >= 8 THEN cosineSimilarityAVX2(a, b)
    ELSE cosineSimilarityScalar(a, b)

\* the vectors the caller passes: x up to a split position, y after it
VecLens == {2, 8, 9}
VecEntries == {-1, 0, 2}
VecSplits == {1, 5}
Vectors ==
    { [i \in 1..n |-> IF i <= j THEN x ELSE y] :
        n \in VecLens, j \in VecSplits, x \in VecEntries, y \in VecEntries }

SimdInit ==
    /\ hasAVX2Check \in BOOLEAN
    /\ va \in Vectors
    /\ vb \in Vectors
    /\ cosOut = NoOut
    /\ scalarOut = NoOut

\* the state the package keeps in the other specifications
SimdIdle ==
    /\ hasAVX2Check = FALSE
    /\ va = << >>
    /\ vb = << >>
    /\ cosOut = NoOut
    /\ scalarOut = NoOut

\* the caller evaluates CosineSimilarity(va, vb)
CallCosineSimilarity ==
    /\ cosOut = NoOut
    /\ cosOut' = CosineSimilarity(va, vb)
    /\ UNCHANGED << hasAVX2Check, va, vb, scalarOut >>
    /\ UNCHANGED nonSimd

\* the caller evaluates the scalar baseline on the same vectors
CallCosineSimilarityScalar ==
    /\ scalarOut = NoOut
    /\ scalarOut' = cosineSimilarityScalar(va, vb)
    /\ UNCHANGED << hasAVX2Check, va, vb, cosOut >>
    /\ UNCHANGED nonSimd

(***************************************************************************)
(* The two locks a cleanup pass and the engine share: s.mu of the          *)
(* scheduler and engine.mu.  One goroutine runs run(); engine operations   *)
(* run concurrently.  engine.go is not part of the sources: that an engine *)
(* operation holds engine.mu while it calls UpdateSession or RemoveSession *)
(* follows the specification (4.7).  Lock() blocks while another goroutine *)
(* holds the mutex.                                                        *)
(***************************************************************************)
Free == "none"
Cleaner == "cleanup"
EngineOps == {"o1", "o2"}
SchedCalls == {"UpdateSession", "RemoveSession"}

LockInit ==
    /\ sMu = Free
    /\ engineMu = Free
    /\ cleaner = "loop"
    /\ engineOp = [o \in EngineOps |-> [pc |-> "idle", call |-> "none"]]

\* the state the locks keep in the other specifications
LockIdle == LockInit

\* run(): getNextDelay takes s.mu (line 98)
DelayLock ==
    /\ cleaner = "loop"
    /\ sMu = Free
    /\ sMu' = Cleaner
    /\ cleaner' = "delay"
    /\ UNCHANGED << engineMu, engineOp >>
    /\ UNCHANGED nonLock

\* getNextDelay returns: the deferred s.mu.Unlock (line 99); run() sleeps
DelayUnlock ==
    /\ cleaner = "delay"
    /\ sMu' = Free
    /\ cleaner' = "wait"
    /\ UNCHANGED << engineMu, engineOp >>
    /\ UNCHANGED nonLock

\* the timer fires: cleanup() reaches s.mu.Lock() (line 121)
TimerFires ==
    /\ cleaner = "wait"
    /\ cleaner' = "lockSched"
    /\ UNCHANGED << sMu, engineMu, engineOp >>
    /\ UNCHANGED nonLock

\* s.mu.Lock() of cleanup() succeeds (line 121)
CleanupLockSched ==
    /\ cleaner = "lockSched"
    /\ sMu = Free
    /\ sMu' = Cleaner
    /\ cleaner' = "collect"
    /\ UNCHANGED << engineMu, engineOp >>
    /\ UNCHANGED nonLock

CleanupKeepsSchedLocked(found) ==
    /\ cleaner = "collect"
    /\ sMu' = sMu
    /\ cleaner' = IF found THEN "lockEngine" ELSE "loop"
    /\ UNCHANGED << engineMu, engineOp >>
    /\ UNCHANGED nonLock

\* the pop loop is over: s.mu.Unlock() (line 130); with entries to remove
\* cleanup() goes on to s.engine.mu.Lock() (lines 133-134), else it returns
CleanupUnlockSched(found) ==
    /\ cleaner = "collect"
    /\ sMu' = Free
    /\ cleaner' = IF found THEN "lockEngine" ELSE "loop"
    /\ UNCHANGED << engineMu, engineOp >>
    /\ UNCHANGED nonLock

\* s.engine.mu.Lock() succeeds (line 134)
CleanupLockEngine ==
    /\ cleaner = "lockEngine"
    /\ engineMu = Free
    /\ engineMu' = Cleaner
    /\ cleaner' = "remove"
    /\ UNCHANGED << sMu, engineOp >>
    /\ UNCHANGED nonLock

\* the removal loop is over: s.engine.mu.Unlock() (line 141); run() loops
CleanupUnlockEngine ==
    /\ cleaner = "remove"
    /\ engineMu' = Free
    /\ cleaner' = "loop"
    /\ UNCHANGED << sMu, engineOp >>
    /\ UNCHANGED nonLock

\* an engine operation starts and reaches engine.mu.Lock()
OpBegin(o, call) ==
    /\ engineOp[o].pc = "idle"
    /\ engineOp' = [engineOp EXCEPT ![o] = [pc |-> "lockEngine", call |-> call]]
    /\ UNCHANGED << sMu, engineMu, cleaner >>
    /\ UNCHANGED nonLock

\* engine.mu.Lock() succeeds; the operation calls UpdateSession or
\* RemoveSession, which reaches s.mu.Lock() (lines 147, 168)
OpLockEngine(o) ==
    /\ engineOp[o].pc = "lockEngine"
    /\ engineMu = Free
    /\ engineMu' = o
    /\ engineOp' = [engineOp EXCEPT ![o].pc = "lockSched"]
    /\ UNCHANGED << sMu, cleaner >>
    /\ UNCHANGED nonLock

\* s.mu.Lock() of UpdateSession / RemoveSession succeeds
OpLockSched(o) ==
    /\ engineOp[o].pc = "lockSched"
    /\ sMu = Free
    /\ sMu' = o
    /\ engineOp' = [engineOp EXCEPT ![o].pc = "inSched"]
    /\ UNCHANGED << engineMu, cleaner >>
    /\ UNCHANGED nonLock

\* UpdateSession / RemoveSession returns: the deferred s.mu.Unlock()
OpUnlockSched(o) ==
    /\ engineOp[o].pc = "inSched"
    /\ sMu' = Free
    /\ engineOp' = [engineOp EXCEPT ![o].pc = "unlockEngine"]
    /\ UNCHANGED << engineMu, cleaner >>
    /\ UNCHANGED nonLock

\* the engine operation releases engine.mu and returns
OpUnlockEngine(o) ==
    /\ engineOp[o].pc = "unlockEngine"
    /\ engineMu' = Free
    /\ engineOp' = [engineOp EXCEPT ![o] = [pc |-> "idle", call |-> "none"]]
    /\ UNCHANGED << sMu, cleaner >>
    /\ UNCHANGED nonLock

\* the holder of the mutex a goroutine is blocked on (Free when it is not blocked)
BlockedOn(t) ==
    IF t = Cleaner
    THEN IF cleaner = "lockSched" THEN sMu
         ELSE IF cleaner = "lockEngine" THEN engineMu
         ELSE Free
    ELSE IF engineOp[t].pc = "lockEngine" THEN engineMu
         ELSE IF engineOp[t].pc = "lockSched" THEN sMu
         ELSE Free

(***************************************************************************)
(* resilience.CircuitBreaker.  beforeRequest and afterRequest each hold    *)
(* cb.mu for their whole body and are one step; fn() runs between them     *)
(* without the lock.  Time is counted in clock units (the default timeout  *)
(* of 60 s is 2 units).  The counters are uint32 and uint64 and stay far   *)
(* below their ranges here.                                                *)
(***************************************************************************)
\* calls of Execute made in one run
MaxRequests == 6

StateClosed == 0
StateOpen == 1
StateHalfOpen == 2
DefaultMaxFailures == 5
DefaultTimeout == 2
DefaultHalfOpenMaxReqs == 1

ErrCircuitOpen == "circuit breaker is open"
ErrTooManyRequests == "too many requests in half-open state"
ErrFn == "fn failed"

\* the Config values NewCircuitBreaker is called with (0: unset)
CfgMaxFailures == {0, 1, 2}
CfgTimeouts == {0, 1}
CfgHalfOpenMaxReqs == {0, 2}
ExecCallers == {"c1", "c2"}
NotAdmitted == -1
NoTime == -1

NewCircuitBreaker(cfg, t) ==
    [maxFailures |-> IF cfg.MaxFailures = 0 THEN DefaultMaxFailures ELSE cfg.MaxFailures,
     timeout |-> IF cfg.Timeout = 0 THEN DefaultTimeout ELSE cfg.Timeout,
     halfOpenMaxReqs |-> IF cfg.HalfOpenMaxReqs = 0 THEN DefaultHalfOpenMaxReqs
                         ELSE cfg.HalfOpenMaxReqs,
     state |-> StateClosed,
     failures |-> 0,
     lastFailureTime |-> ZeroTime,
     lastStateChange |-> t,
     halfOpenRequests |-> 0,
     totalRequests |-> 0,
     totalFailures |-> 0,
     totalSuccesses |-> 0]

BreakerInit ==
    /\ \E mf \in CfgMaxFailures, to \in CfgTimeouts, ho \in CfgHalfOpenMaxReqs :
          cb = NewCircuitBreaker([MaxFailures |-> mf, Timeout |-> to,
                                  HalfOpenMaxReqs |-> ho], 0)
    /\ req = [p \in ExecCallers |-> [pc |-> "idle", admittedIn |-> NotAdmitted, err |-> nil]]
    /\ hoAdmitted = 0
    /\ openedAt = NoTime

\* the state the breaker keeps in the other specifications
BreakerIdle ==
    /\ cb = NewCircuitBreaker([MaxFailures |-> 0, Timeout |-> 0, HalfOpenMaxReqs |-> 0], 0)
    /\ req = [p \in ExecCallers |-> [pc |-> "idle", admittedIn |-> NotAdmitted, err |-> nil]]
    /\ hoAdmitted = 0
    /\ openedAt = NoTime

beforeRequestNoLimit(c, t) ==
    LET c1 == [c EXCEPT !.totalRequests = @ + 1]
    IN  IF c.state = StateClosed THEN [cb |-> c1, err |-> nil]
        ELSE IF c.state = StateOpen
        THEN IF t - c.lastStateChange > c.timeout
             THEN [cb |-> [c1 EXCEPT !.state = StateHalfOpen, !.lastStateChange = t,
                                     !.halfOpenRequests = 1],
                   err |-> nil]
             ELSE [cb |-> c1, err |-> ErrCircuitOpen]
        ELSE [cb |-> [c1 EXCEPT !.halfOpenRequests = @ + 1], err |-> nil]

\* beforeRequest (lines 96-130) at clock reading t: the breaker after it and
\* the error it returns
beforeRequest(c, t) ==
    LET c1 == [c EXCEPT !.totalRequests = @ + 1]
    IN  IF c.state = StateClosed THEN [cb |-> c1, err |-> nil]
        ELSE IF c.state = StateOpen
        THEN IF t - c.lastStateChange > c.timeout
             THEN [cb |-> [c1 EXCEPT !.state = StateHalfOpen, !.lastStateChange = t,
                                     !.halfOpenRequests = 1],
                   err |-> nil]
             ELSE [cb |-> c1, err |-> ErrCircuitOpen]
        ELSE IF c.state = StateHalfOpen
        THEN IF c.halfOpenRequests >= c.halfOpenMaxReqs
             THEN [cb |-> c1, err |-> ErrTooManyRequests]
             ELSE [cb |-> [c1 EXCEPT !.halfOpenRequests = @ + 1], err |-> nil]
        ELSE [cb |-> c1, err |-> ErrCircuitOpen]

onFailureOffByOne(c, t) ==
    LET c1 == [c EXCEPT !.failures = @ + 1, !.lastFailureTime = t]
    IN  IF c.state = StateClosed
        THEN IF c1.failures > c1.maxFailures
             THEN [c1 EXCEPT !.state = StateOpen, !.lastStateChange = t]
             ELSE c1
        ELSE IF c.state = StateHalfOpen
        THEN [c1 EXCEPT !.state = StateOpen, !.lastStateChange = t,
                        !.halfOpenRequests = 0]
        ELSE c1

\* onFailure (lines 147-166)
onFailure(c, t) ==
    LET c1 == [c EXCEPT !.failures = @ + 1, !.lastFailureTime = t]
    IN  IF c.state = StateClosed
        THEN IF c1.failures >= c1.maxFailures
             THEN [c1 EXCEPT !.state = StateOpen, !.lastStateChange = t]
             ELSE c1
        ELSE IF c.state = StateHalfOpen
        THEN [c1 EXCEPT !.state = StateOpen, !.lastStateChange = t,
                        !.halfOpenRequests = 0]
        ELSE c1

\* onSuccess (lines 169-182)
onSuccess(c, t) ==
    IF c.state = StateClosed THEN [c EXCEPT !.failures = 0]
    ELSE IF c.state = StateHalfOpen
    THEN [c EXCEPT !.state = StateClosed, !.failures = 0, !.halfOpenRequests = 0,
                   !.lastStateChange = t]
    ELSE c

\* afterRequest (lines 133-144)
afterRequest(c, failed, t) ==
    IF failed
    THEN onFailure([c EXCEPT !.totalFailures = @ + 1], t)
    ELSE onSuccess([c EXCEPT !.totalSuccesses = @ + 1], t)

\* the history variables after the breaker went from c to d at clock reading t
History(c, d, admitted, t) ==
    /\ hoAdmitted' =
          IF d.state # StateHalfOpen THEN 0
          ELSE IF c.state # StateHalfOpen THEN 1
          ELSE IF admitted THEN hoAdmitted + 1
          ELSE hoAdmitted
    /\ openedAt' =
          IF d.state # StateOpen THEN NoTime
          ELSE IF c.state # StateOpen THEN t
          ELSE openedAt

\* Execute, up to the call of fn (lines 80-87): with an error from
\* beforeRequest it returns that error at once
ExecuteBefore(p) ==
    /\ req[p].pc = "idle"
    /\ cb.totalRequests < MaxRequests
    /\ LET b == beforeRequest(cb, now)
       IN  /\ cb' = b.cb
           /\ req' = [req EXCEPT ![p] =
                        IF b.err = nil
                        THEN [pc |-> "running", admittedIn |-> b.cb.state, err |-> nil]
                        ELSE [pc |-> "idle", admittedIn |-> NotAdmitted, err |-> b.err]]
           /\ History(cb, b.cb, b.err = nil, now)
    /\ UNCHANGED nonBreaker

\* Execute, from the return of fn (lines 87-92)
ExecuteAfter(p, failed) ==
    /\ req[p].pc = "running"
    /\ cb' = afterRequest(cb, failed, now)
    /\ req' = [req EXCEPT ![p] = [pc |-> "idle", admittedIn |-> req[p].admittedIn,
                                  err |-> IF failed THEN ErrFn ELSE nil]]
    /\ History(cb, cb', FALSE, now)
    /\ UNCHANGED nonBreaker

\* Reset (lines 219-227)
Reset ==
    /\ cb.state # StateClosed
    /\ cb' = [cb EXCEPT !.state = StateClosed, !.failures = 0,
                        !.halfOpenRequests = 0, !.lastStateChange = now]
    /\ History(cb, cb', FALSE, now)
    /\ UNCHANGED req
    /\ UNCHANGED nonBreaker

(***************************************************************************)
(* Specifications                                                          *)
(***************************************************************************)
QuotaNext ==
    \/ \E p \in Inserters, n \in Deltas : InsertCheck(p, n)
    \/ \E p \in Inserters : InsertIncrement(p)
    \/ \E n \in Deltas : DeleteEntity(n)
    \/ \E n \in Deltas : CheckRelationship(n)
    \/ \E n \in Deltas : CheckDocument(n)
    \/ \E n \in Deltas : CheckMemory(n)
    \/ \E n \in Deltas : AddRelationship(n)
    \/ \E n \in Deltas : DeleteRelationship(n)
    \/ \E n \in Deltas : AddDocument(n)
    \/ \E n \in Deltas : DeleteDocument(n)
    \/ \E n \in Deltas : GrowMemory(n)
    \/ \E n \in Deltas : ShrinkMemory(n)

QuotaSpecInit == QuotaInit /\ TaskIdle /\ SchedInit /\ WalIdle /\ BackupInit /\ RecoveryIdle
        /\ IdInit /\ ReadInit /\ IdInit
        /\ ShutdownInit
        /\ CallerInit
        /\ LruIdle /\ SimdIdle /\ LockIdle /\ BreakerIdle

QuotaSpec == QuotaSpecInit /\ [][QuotaNext]_vars

TaskNext ==
    \/ \E w \in WorkerIds : WorkerExit(w)
    \/ \E w \in WorkerIds : WorkerReceive(w)
    \/ \E w \in WorkerIds : WorkerReceiveClosed(w)
    \/ \E w \in WorkerIds : ProcessTaskStart(w)
    \/ \E w \in WorkerIds, failed \in BOOLEAN : ProcessTaskFinish(w, failed)
    \/ \E p \in Submitters : SubmitRegister(p)
    \/ \E p \in Submitters : SubmitEnqueue(p)
    \/ \E p \in Submitters : SubmitSendOnClosed(p)
    \/ \E p \in Submitters : SubmitShuttingDown(p)
    \/ \E p \in Submitters : SubmitPark(p)
    \/ \E taskID \in TaskIds : CancelTask(taskID)
    \/ ShutdownCancel
    \/ ShutdownClose

\* a session with no quota and no insert in flight
QuotaIdle ==
    /\ EntityCount = 0 /\ RelationshipCount = 0
    /\ DocumentCount = 0 /\ MemoryBytes = 0
    /\ MaxEntities = 0 /\ MaxRelationships = 0
    /\ MaxDocuments = 0 /\ MaxMemoryBytes = 0
    /\ inserter = [p \in Inserters |-> [pc |-> "idle", n |-> 0]]
    /\ err = nil

TaskSpecInit == TaskInit /\ QuotaIdle /\ SchedInit /\ WalIdle /\ BackupInit /\ RecoveryIdle
        /\ IdInit /\ ReadInit /\ IdInit
        /\ ShutdownInit
        /\ CallerInit
        /\ LruIdle /\ SimdIdle /\ LockIdle /\ BreakerIdle

SchedNext ==
    \/ Tick
    \/ RunResetTimer
    \/ CleanupStart
    \/ CleanupCollect
    \/ CleanupRemove
    \/ \E id \in SessionIds, ttl \in TTLs, idleTTL \in TTLs : CreateSession(id, ttl, idleTTL)
    \/ \E id \in SessionIds : TouchSession(id)
    \/ \E id \in SessionIds : DropSession(id)

SchedSpecInit == SchedInit /\ QuotaIdle /\ TaskIdle /\ WalIdle /\ BackupInit /\ RecoveryIdle
        /\ IdInit /\ ReadInit /\ IdInit
        /\ ShutdownInit
        /\ CallerInit
        /\ LruIdle /\ SimdIdle /\ LockIdle /\ BreakerIdle

SchedSpec == SchedSpecInit /\ [][SchedNext]_vars

WalNext ==
    \/ \E p \in Appenders : AppendCall(p)
    \/ \E p \in Appenders : AppendLock(p)
    \/ \E p \in Appenders : AppendAssign(p)
    \/ \E p \in Appenders : AppendWrite(p)
    \/ \E p \in Appenders : AppendFsync(p)
    \/ \E p \in Appenders : AppendReturn(p)
    \/ \E periodic \in BOOLEAN : SyncLock(periodic)
    \/ SyncFlush

WalSpecInit == WalInit /\ QuotaIdle /\ TaskIdle /\ SchedInit /\ BackupInit /\ RecoveryIdle /\ ReadInit /\ IdInit
        /\ ShutdownInit
        /\ CallerInit
        /\ LruIdle /\ SimdIdle /\ LockIdle /\ BreakerIdle

WalSpec == WalSpecInit /\ [][WalNext]_vars

BackupNext ==
    \/ WalNext
    \/ PrepareBegin
    \/ PrepareSync
    \/ PrepareTake
    \/ \E ok \in BOOLEAN : CommitOpen(ok)
    \/ \E ok \in BOOLEAN : CommitWrite(ok)
    \/ \E ok \in BOOLEAN : CommitFlush(ok)
    \/ CommitRename

BackupSpecInit == WalInit /\ BackupInit /\ QuotaIdle /\ TaskIdle /\ SchedInit /\ RecoveryIdle /\ ReadInit /\ IdInit
        /\ ShutdownInit
        /\ CallerInit
        /\ LruIdle /\ SimdIdle /\ LockIdle /\ BreakerIdle

BackupSpec == BackupSpecInit /\ [][BackupNext]_vars

RecoveryNext == Execute

RecoverySpecInit ==
    RecoveryInit /\ QuotaIdle /\ TaskIdle /\ SchedInit /\ WalIdle /\ BackupInit /\ ReadInit
        /\ IdInit
        /\ ShutdownInit
        /\ CallerInit
        /\ LruIdle /\ SimdIdle /\ LockIdle /\ BreakerIdle

RecoverySpec == RecoverySpecInit /\ [][RecoveryNext]_vars

ReadNext ==
    \/ \E e \in EntriesAt(Len(dAppended) + 1) : AppendEntry(e)
    \/ \E fromLSN \in 0..(MaxLog + 1) : ReadEntriesCall(fromLSN)

ReadSpecInit ==
    ReadInit /\ QuotaIdle /\ TaskIdle /\ SchedInit /\ WalIdle /\ BackupInit /\ RecoveryIdle
        /\ IdInit
        /\ ShutdownInit
        /\ CallerInit
        /\ LruIdle /\ SimdIdle /\ LockIdle /\ BreakerIdle

ReadSpec == ReadSpecInit /\ [][ReadNext]_vars

IdNext ==
    \/ \E kind \in Kinds : NextID(kind)
    \/ GetCounters
    \/ NewIDGenerator
    \/ SetCounters
    \/ RestoreState

IdSpecInit ==
    IdInit /\ QuotaIdle /\ TaskIdle /\ SchedInit /\ WalIdle /\ BackupInit /\ RecoveryIdle
        /\ ReadInit
        /\ ShutdownInit
        /\ CallerInit
        /\ LruIdle /\ SimdIdle /\ LockIdle /\ BreakerIdle

IdSpec == IdSpecInit /\ [][IdNext]_vars

HeapNext ==
    \/ \E sessionID \in HeapIds, expireAt \in 1..MaxExpire :
            CallUpdateSession(sessionID, expireAt)
    \/ \E sessionID \in HeapIds : CallRemoveSession(sessionID)
    \/ \E t \in 0..MaxExpire : CleanupPass(t)

HeapSpecInit ==
    HeapInit /\ QuotaIdle /\ TaskIdle /\ WalIdle /\ BackupInit /\ RecoveryIdle /\ ReadInit
        /\ IdInit
        /\ ShutdownInit
        /\ CallerInit
        /\ LruIdle /\ SimdIdle /\ LockIdle /\ BreakerIdle

HeapSpec == HeapSpecInit /\ [][HeapNext]_vars

LruNext ==
    \/ \E key \in LruKeys : Get(key)
    \/ \E key \in LruKeys, value \in LruValues, size \in LruSizes : Put(key, value, size)
    \/ \E key \in LruKeys : Remove(key)
    \/ Clear
    \/ \E count \in 0..MaxLruCap : EvictOldest(count)

LruSpecInit ==
    LruInit /\ QuotaIdle /\ TaskIdle /\ SchedInit /\ WalIdle /\ BackupInit
        /\ RecoveryIdle /\ ReadInit /\ IdInit /\ ShutdownInit /\ CallerInit
        /\ SimdIdle /\ LockIdle /\ BreakerIdle

LruSpec == LruSpecInit /\ [][LruNext]_vars

SimdNext ==
    \/ CallCosineSimilarity
    \/ CallCosineSimilarityScalar

SimdSpecInit ==
    SimdInit /\ QuotaIdle /\ TaskIdle /\ SchedInit /\ WalIdle /\ BackupInit
        /\ RecoveryIdle /\ ReadInit /\ IdInit /\ ShutdownInit /\ CallerInit
        /\ LruIdle /\ LockIdle /\ BreakerIdle

SimdSpec == SimdSpecInit /\ [][SimdNext]_vars

LockNext ==
    \/ DelayLock
    \/ DelayUnlock
    \/ TimerFires
    \/ CleanupLockSched
    \/ \E found \in BOOLEAN : CleanupUnlockSched(found)
    \/ CleanupLockEngine
    \/ CleanupUnlockEngine
    \/ \E o \in EngineOps, call \in SchedCalls : OpBegin(o, call)
    \/ \E o \in EngineOps : OpLockEngine(o)
    \/ \E o \in EngineOps : OpLockSched(o)
    \/ \E o \in EngineOps : OpUnlockSched(o)
    \/ \E o \in EngineOps : OpUnlockEngine(o)

LockSpecInit ==
    LockInit /\ QuotaIdle /\ TaskIdle /\ SchedInit /\ WalIdle /\ BackupInit
        /\ RecoveryIdle /\ ReadInit /\ IdInit /\ ShutdownInit /\ CallerInit
        /\ LruIdle /\ SimdIdle /\ BreakerIdle

LockSpec == LockSpecInit /\ [][LockNext]_vars

BreakerNext ==
    \/ Tick
    \/ \E p \in ExecCallers : ExecuteBefore(p)
    \/ \E p \in ExecCallers, failed \in BOOLEAN : ExecuteAfter(p, failed)
    \/ Reset

BreakerSpecInit ==
    BreakerInit /\ QuotaIdle /\ TaskIdle /\ SchedInit /\ WalIdle /\ BackupInit
        /\ RecoveryIdle /\ ReadInit /\ IdInit /\ ShutdownInit /\ CallerInit
        /\ LruIdle /\ SimdIdle /\ LockIdle

BreakerSpec == BreakerSpecInit /\ [][BreakerNext]_vars

ShutdownNext ==
    \/ \E name \in HookNames, priority \in HookPriorities : Register(name, priority)
    \/ Start
    \/ \E r \in Runs : ShutdownBegin(r)
    \/ \E r \in Runs : StartGroup(r)
    \/ \E r \in Runs, n \in HookNames : HookRun(r, n)
    \/ \E r \in Runs, n \in HookNames, failed \in BOOLEAN : HookReturn(r, n, failed)
    \/ \E r \in Runs : GroupDone(r)
    \/ \E r \in Runs : ShutdownFinish(r)
    \/ \E r \in Runs : CtxExpire(r)

ShutdownSpecInit ==
    ShutdownInit /\ QuotaIdle /\ TaskIdle /\ SchedInit /\ WalIdle /\ BackupInit
        /\ RecoveryIdle /\ ReadInit /\ IdInit
        /\ CallerInit
        /\ LruIdle /\ SimdIdle /\ LockIdle /\ BreakerIdle

ShutdownSpec == ShutdownSpecInit /\ [][ShutdownNext]_vars

\* Every goroutine of the handler is scheduled and the timer of the context
\* fires; what a hook's Fn does, and whether it returns, is up to the hook.
ShutdownFairness ==
    /\ \A r \in Runs : WF_vars(StartGroup(r))
    /\ \A r \in Runs : WF_vars(GroupDone(r))
    /\ \A r \in Runs : WF_vars(ShutdownFinish(r))
    /\ \A r \in Runs : WF_vars(CtxExpire(r))
    /\ \A r \in Runs, n \in HookNames : WF_vars(HookRun(r, n))

ShutdownLiveSpec == ShutdownSpecInit /\ [][ShutdownNext]_vars /\ ShutdownFairness

TaskSpec == TaskSpecInit /\ [][TaskNext]_vars

\* The manager while Shutdown is never called: the steps of the workers, of
\* one submitter (its calls follow one another) and of the callers of CancelTask.
TaskLiveNext ==
    \/ \E w \in WorkerIds : WorkerReceive(w)
    \/ \E w \in WorkerIds : ProcessTaskStart(w)
    \/ \E w \in WorkerIds, failed \in BOOLEAN : ProcessTaskFinish(w, failed)
    \/ SubmitRegister("s1")
    \/ SubmitEnqueue("s1")
    \/ SubmitPark("s1")
    \/ \E taskID \in TaskIds : CancelTask(taskID)

\* Every worker goroutine is scheduled, and ComputeCommunities returns.
TaskFairness ==
    /\ \A w \in WorkerIds : WF_vars(WorkerReceive(w))
    /\ \A w \in WorkerIds : WF_vars(ProcessTaskStart(w))
    /\ \A w \in WorkerIds : WF_vars(\E failed \in BOOLEAN : ProcessTaskFinish(w, failed))

TaskLiveSpec == TaskSpecInit /\ [][TaskLiveNext]_vars /\ TaskFairness

\* The manager with one worker and one submitter while the clock advances:
\* with the callers of CancelTask and GetTaskResult (ResultSpec), and with the
\* callers of CancelTask and CleanupOldTasks (AgeSpec).
\* the clock of these two specifications stops here
MaxClock == 2
\* the task ids their submitter creates
SubmittedIds == {1, 2}

ClockTick ==
    /\ now < MaxClock
    /\ Tick

SubmitOne ==
    /\ nextTask + 1 \in SubmittedIds
    /\ SubmitRegister("s1")

ManagerNext ==
    \/ ClockTick
    \/ \E w \in WorkerIds : WorkerReceive(w)
    \/ \E w \in WorkerIds : ProcessTaskStart(w)
    \/ \E w \in WorkerIds, failed \in BOOLEAN : ProcessTaskFinish(w, failed)
    \/ SubmitOne
    \/ SubmitEnqueue("s1")
    \/ SubmitPark("s1")
    \/ \E taskID \in TaskIds : CancelTask(taskID)

ResultNext ==
    \/ ManagerNext
    \/ \E taskID \in TaskIds, timeout \in Timeouts : GetTaskResultCall(taskID, timeout)
    \/ GetTaskResultPoll
    \/ GetTaskResultSwitch
    \/ GetTaskResultWake

ResultSpecInit ==
    TaskInit /\ configured = 1 /\ QuotaIdle /\ SchedInit /\ WalIdle /\ BackupInit
        /\ RecoveryIdle /\ ReadInit /\ IdInit /\ ShutdownInit /\ CallerInit
        /\ LruIdle /\ SimdIdle /\ LockIdle /\ BreakerIdle

ResultSpec == ResultSpecInit /\ [][ResultNext]_vars

AgeNext ==
    \/ ManagerNext
    \/ \E maxAge \in MaxAges : CleanupOldTasks(maxAge)

AgeSpecInit ==
    TaskInit /\ configured = 1 /\ QuotaIdle /\ SchedInit /\ WalIdle /\ BackupInit
        /\ RecoveryIdle /\ ReadInit /\ IdInit /\ ShutdownInit /\ CallerInit
        /\ LruIdle /\ SimdIdle /\ LockIdle /\ BreakerIdle

AgeSpec == AgeSpecInit /\ [][AgeNext]_vars

(***************************************************************************)
(* Claims about the session quotas (checked under QuotaSpec)               *)
(***************************************************************************)

\* C1: with every insert calling CheckEntityQuota(n) first and
\* IncrementEntity(n) only after a passed check, EntityCount never exceeds a
\* positive MaxEntities, also when inserts of one session run concurrently.
C1_EntityCountWithinQuota ==
    MaxEntities > 0 => EntityCount <= MaxEntities

\* C2: for each quota kind the check for adding n passes exactly when the cap
\* is 0 (unlimited) or current + n <= cap, fails with that kind's own error
\* otherwise, and changes no counter.
C2_QuotaCheckExact ==
    [][ /\ \A p \in Inserters, n \in Deltas :
              InsertCheck(p, n) =>
                 /\ err' = IF MaxEntities = 0 \/ EntityCount + n <= MaxEntities
                           THEN nil ELSE ErrEntityQuotaExceeded
                 /\ counters' = counters
        /\ \A n \in Deltas :
              CheckRelationship(n) =>
                 /\ err' = IF MaxRelationships = 0
                              \/ RelationshipCount + n <= MaxRelationships
                           THEN nil ELSE ErrRelationshipQuotaExceeded
                 /\ counters' = counters
        /\ \A n \in Deltas :
              CheckDocument(n) =>
                 /\ err' = IF MaxDocuments = 0 \/ DocumentCount + n <= MaxDocuments
                           THEN nil ELSE ErrDocumentQuotaExceeded
                 /\ counters' = counters
        /\ \A n \in Deltas :
              CheckMemory(n) =>
                 /\ err' = IF MaxMemoryBytes = 0 \/ MemoryBytes + n <= MaxMemoryBytes
                           THEN nil ELSE ErrMemoryQuotaExceeded
                 /\ counters' = counters
      ]_vars

\* C2 witness: one insert passed its check with current + n exactly at the
\* cap, and a later check of one more was refused with the entity error.
C2_Witness ==
    /\ MaxEntities > 0
    /\ err = ErrEntityQuotaExceeded
    /\ \E p \in Inserters :
          /\ inserter[p].pc = "checked"
          /\ EntityCount + inserter[p].n = MaxEntities

(***************************************************************************)
(* Claims about the task manager (checked under TaskSpec)                  *)
(***************************************************************************)

C6_SubmitDuringShutdownFails ==
    [][ \A p \in Submitters :
          ( /\ submitter[p].pc \in {"select", "parked"}
            /\ ctxDone
            /\ submitter'[p].pc \notin {"select", "parked"} )
          => /\ submitter'[p].pc = "idle"
             /\ submitter'[p].ret = ErrShuttingDown
             /\ queue' = queue
      ]_vars

\* C7: with the queue at capacity and every worker busy, SubmitCommunityTask
\* returns an error to its caller; it never blocks waiting for a slot.
C7_SubmitNeverBlocks ==
    ( /\ Len(queue) = QueueCap
      /\ \A w \in Workers : worker[w].pc \in {"received", "computing"} )
    => \A p \in Submitters : submitter[p].pc # "parked"

RunningTasks == { t \in DOMAIN task : task[t].Status = TaskStatusRunning }

\* C8: the number of Running tasks never exceeds the worker count, which is
\* the configured count or 2 when that is <= 0, and the queue never holds
\* more than its capacity.
C8_BoundedRunningAndQueue ==
    /\ workers = (IF configured <= 0 THEN 2 ELSE configured)
    /\ Cardinality(RunningTasks) <= workers
    /\ Len(queue) <= QueueCap

\* C8 witness: the default worker count is in force, every worker runs a task
\* and the queue is full.
C8_Witness ==
    /\ configured <= 0
    /\ Cardinality(RunningTasks) = workers
    /\ Len(queue) = QueueCap

\* ---- cleanup scheduler ----
\* ids of the sessions the cleanup() call in progress still has to look at
Pending == { toRemove[i] : i \in 1..Len(toRemove) }

\* C3: a cleanup pass pops every heap entry whose expireAt <= the now it read,
\* and its removal loop deletes a session from the engine only when that
\* session is the popped one and IsExpired still holds at the re-check; a
\* session that was touched and is no longer expired is not deleted.
C3_CleanupDeletesOnlyExpired ==
    [][ /\ (schedPc = "collect" /\ schedPc' # "collect") =>
              \A id \in heapIndex :
                  expiry[id].expireAt <= cleanNow =>
                      id \notin heapIndex' /\ (schedPc' = "remove" => id \in Pending')
        /\ schedPc = "remove" =>
              \A id \in sessions \ sessions' :
                  id = Head(toRemove) /\ IsExpired(id) ]_vars

\* C3 witness: a session whose entry a pass popped (it has an expiry but no
\* entry, and the pass is done with it) is still in the engine because it was
\* touched and its idle deadline moved past the clock
C3_Witness ==
    \E id \in sessions :
        /\ id \notin heapIndex
        /\ id \notin Pending
        /\ sess[id].TTL = 0
        /\ sess[id].IdleTTL > 0
        /\ sess[id].LastAccess > sess[id].CreatedAt
        /\ sess[id].CreatedAt + sess[id].IdleTTL < now
        /\ ~IsExpired(id)

\* C4: a session with an idle TTL that is never touched again is evicted by
\* the scheduler.  The scheduler evicts only sessions it has an entry for (or
\* has just popped), and nothing re-registers an untouched session, so the
\* claim needs: such a session, while in the engine, stays tracked.
C4_UntouchedIdleSessionStaysTracked ==
    \A id \in sessions :
        (sess[id].IdleTTL > 0 /\ sess[id].LastAccess = sess[id].CreatedAt)
            => (id \in heapIndex \/ id \in Pending)

\* ---- WAL ----
\* C9: the LSNs returned by Append are strictly increasing in the order the
\* calls return, none is 0 and the first is 1, also with concurrent callers;
\* every write raises CurrentLSN by exactly 1, so that with no append in
\* progress CurrentLSN is the number of appends.
C9_LSNStrictlyIncreasing ==
    [][ /\ \A i \in 1..Len(returned') : returned'[i] # 0
        /\ Len(returned') > 0 => returned'[1] = 1
        /\ \A i \in 1..(Len(returned') - 1) : returned'[i] < returned'[i + 1]
        /\ currentLSN' # currentLSN => currentLSN' = currentLSN + 1
        /\ \A p \in Appenders :
              (appender[p].pc = "write" /\ appender'[p].pc # "write")
                  => currentLSN' = currentLSN + 1
        /\ (\A p \in Appenders : appender'[p].pc = "idle")
              => currentLSN' = Len(returned') ]_vars

\* C9 witness: appends have returned 1 and 2, a caller has written entry 3 and is
\* about to return while another caller is inside Append waiting for the mutex
C9_Witness ==
    /\ returned = << 1, 2 >>
    /\ \E p, q \in Appenders :
          /\ appender[p].pc = "unlock"
          /\ appender[p].lsn = 3
          /\ appender[q].pc = "lock"

\* C10: flushedLSN never exceeds currentLSN; under SyncEveryWrite the two are
\* equal at the moment an Append returns; an explicit Sync leaves flushedLSN
\* equal to currentLSN.
C10_FlushedFollowsCurrent ==
    [][ /\ flushedLSN' <= currentLSN'
        /\ \A p \in Appenders :
              (walMode = SyncEveryWrite /\ appender[p].pc = "unlock" /\ appender'[p].pc = "idle")
                  => flushedLSN' = currentLSN'
        /\ (walMu = Syncer /\ walMu' = Unlocked)
              => (flushedLSN' = currentLSN' /\ currentLSN' = currentLSN) ]_vars

\* C10 witness: under SyncPeriodic or SyncNever an Append has returned with
\* its entry not yet flushed, and a Sync has flushed an earlier one
C10_Witness ==
    /\ walMode # SyncEveryWrite
    /\ walMu = Unlocked
    /\ Len(returned) > 1
    /\ 0 < flushedLSN
    /\ flushedLSN < currentLSN

\* ---- backup coordinator and snapshot files ----
\* C11: the LSN Prepare returns covers every entry appended before Prepare
\* was called and is durable (not above flushedLSN), a sync being forced when
\* needed; the snapshot the following Commit renames into place carries
\* exactly that LSN, whatever was appended in between.
C11_SnapshotCarriesPrepareLSN ==
    [][ /\ (coord.pc = "take" /\ coord'.pc = "prepared")
              => (coord.seen <= coord'.lsn /\ coord'.lsn <= flushedLSN')
        /\ coord'.pc \in {"prepared", "writing", "flushing", "rename"}
              => coord'.lsn <= flushedLSN'
        /\ (coord.pc = "rename" /\ coord'.pc = "idle")
              => (coord'.err = "nil" /\ snapFile' = coord.lsn) ]_vars

\* C11 witness: a Prepare that had to force a sync was committed, and entries
\* were appended after the prepared LSN before Commit finished
C11_Witness ==
    /\ coord.pc = "idle"
    /\ coord.err = "nil"
    /\ coord.forced
    /\ snapFile = coord.lsn
    /\ snapFile > 0
    /\ currentLSN > snapFile

CommitPcs == {"prepared", "writing", "flushing", "rename"}

\* C12: when snapshot creation ends successfully the final path exists and
\* <path>.tmp does not; when it ends with an error <path>.tmp does not exist
\* and the final path is as it was before the call.  The final path changes
\* only at the rename.
C12_SnapshotAtomicAtRename ==
    [][ /\ (coord.pc \in CommitPcs /\ coord'.pc = "idle" /\ coord'.err = "nil")
              => (snapFile' # NoFile /\ tmpFile' = NoFile)
        /\ (coord.pc \in CommitPcs /\ coord'.pc = "idle" /\ coord'.err = "failed")
              => (tmpFile' = NoFile /\ snapFile' = coord'.before /\ snapFile' = snapFile)
        /\ snapFile' # snapFile => coord.pc = "rename" ]_vars

\* C12 witness: a snapshot creation failed after <path>.tmp was written with a
\* different LSN; the earlier snapshot is still in place and there is no tmp
C12_Witness ==
    /\ coord.pc = "idle"
    /\ coord.err = "failed"
    /\ snapFile # NoFile
    /\ coord.before = snapFile
    /\ coord.lsn # snapFile
    /\ tmpFile = NoFile

\* ---- recovery ----
\* C13: replaying the WAL entries with LSN > snapshot.LSN a second time leaves
\* the state the first replay produced, and neither replay fails; entries at
\* or below the snapshot LSN are not applied; with an empty plan Execute
\* succeeds and applies nothing.
C13_ReplayIdempotent ==
    [][ /\ rErr' = "nil"
        /\ rPass = 1 => rStore' = rStore
        /\ rSnapLSN = Len(rLog) => rStore' = rStore
        /\ replayFrom(rStore, rLog, 1, rSnapLSN, rUpsert).applied = Len(rLog) - rSnapLSN ]_vars

\* C13 witness: a WAL replayed twice in which an Insert met an existing id and
\* a Delete met a missing one the second time, and which changed the state
C13_Witness ==
    /\ rPass = 2
    /\ rErr = "nil"
    /\ rSnapLSN = 0
    /\ Len(rLog) = 3
    /\ rLog[1].Type = EntryDelete
    /\ rLog[1].Key = "k1"
    /\ rLog[2].Type = EntryInsert
    /\ rLog[2].Key = "k2"
    /\ rLog[3].Type = EntryDelete
    /\ rLog[3].Key = "k1"
    /\ rStore = rOnce
    /\ rStore["k2"] = rLog[2].Val

\* ---- ReadEntries ----
\* the appended entries with LSN >= fromLSN, in the order they were appended
AppendedFrom(fromLSN) ==
    LET wanted(e) == e.LSN >= fromLSN
    IN  SelectSeq(dAppended, wanted)

C15_IdsDensePerKind ==
    [][ /\ ~rebuilt' =>
              \A k \in Kinds :
                  /\ idCounters'[k] = Len(issued'[k])
                  /\ \A i \in 1..Len(issued'[k]) : issued'[k][i] = i
        /\ \A k \in Kinds :
              issued'[k] # issued[k] =>
                  /\ idCounters'[k] = idCounters[k] + 1
                  /\ issued'[k] = Append(issued[k], idCounters'[k])
                  /\ \A j \in Kinds \ {k} : idCounters'[j] = idCounters[j] ]_vars

\* C15 witness: two ids of one kind and one of another have been issued
C15_Witness ==
    /\ ~rebuilt
    /\ issued["entity"] = << 1, 2 >>
    /\ issued["query"] = << 1 >>
    /\ idCounters["document"] = 0

\* C16: when a new generator is restored by SetCounters or RestoreState with
\* the values GetCounters captured, every kind's counter, query included, is
\* at the captured value, so the next id of each kind is one more than it and
\* no id issued before the capture is issued again.
C16_RestoreContinuesEveryKind ==
    [][ (lastOp = "NewIDGenerator" /\ lastOp' \in {"SetCounters", "RestoreState"}) =>
            \A k \in Kinds : idCounters'[k] = captured[k] ]_vars

\* ---- Session expiry ----
\* the deadlines of the TTLs that are set
Deadlines(s) ==
    (IF s.TTL > 0 THEN {s.CreatedAt + s.TTL} ELSE {})
        \cup (IF s.IdleTTL > 0 THEN {s.LastAccess + s.IdleTTL} ELSE {})

\* C17: GetExpireAt is the earliest deadline among the TTLs that are set and 0
\* when none is set; IsExpired holds exactly when GetExpireAt is non-zero and
\* strictly before the current time.
C17_ExpireAtIsEarliestDeadline ==
    \A id \in sessions :
        /\ Deadlines(sess[id]) = {} => GetExpireAt(id) = 0
        /\ Deadlines(sess[id]) # {} =>
              /\ GetExpireAt(id) \in Deadlines(sess[id])
              /\ \A d \in Deadlines(sess[id]) : GetExpireAt(id) <= d
        /\ IsExpired(id) <=> (GetExpireAt(id) # 0 /\ GetExpireAt(id) < now)

\* C17 witness: a session with both TTLs set was touched, so that its absolute
\* deadline is the earlier one, and has expired; another has no TTL at all
C17_Witness ==
    \E id, other \in sessions :
        /\ sess[id].TTL > 0
        /\ sess[id].IdleTTL > 0
        /\ sess[id].CreatedAt + sess[id].TTL < sess[id].LastAccess + sess[id].IdleTTL
        /\ IsExpired(id)
        /\ sess[other].TTL = 0
        /\ sess[other].IdleTTL = 0
        /\ GetExpireAt(other) = 0

\* ---- scheduler heap ----
\* ids held in the heap slice
InHeap == { heap[i] : i \in 1..Len(heap) }

\* heapIndex and the heap hold the same entries, each id once; every entry's
\* index is its position; every parent is no later than its children, so the
\* root is the earliest
HeapWellFormed ==
    /\ InHeap = heapIndex
    /\ Len(heap) = Cardinality(heapIndex)
    /\ \A i \in 1..Len(heap) : expiry[heap[i]].index = i - 1
    /\ \A i \in 2..Len(heap) :
          expiry[heap[Parent(i - 1) + 1]].expireAt <= expiry[heap[i]].expireAt
    /\ \A i \in 1..Len(heap) : expiry[heap[1]].expireAt <= expiry[heap[i]].expireAt

\* C18: after every UpdateSession, RemoveSession and cleanup pass the heap is
\* well formed (see HeapWellFormed), and a step that changes the expireAt of
\* an id that stays tracked changes no other entry's expireAt and not the
\* tracked count.
C18_HeapTracksEachSessionOnce ==
    [][ /\ HeapWellFormed'
        /\ \A id \in heapIndex \cap heapIndex' :
              expiry'[id].expireAt # expiry[id].expireAt =>
                  /\ heapIndex' = heapIndex
                  /\ Len(heap') = Len(heap)
                  /\ \A other \in heapIndex \ {id} :
                        expiry'[other].expireAt = expiry[other].expireAt ]_vars

\* C18 witness: four tracked sessions in a heap that is not a sorted array,
\* with three different deadlines
C18_Witness ==
    /\ Len(heap) = 4
    /\ heapIndex = HeapIds
    /\ expiry[heap[1]].expireAt < expiry[heap[3]].expireAt
    /\ expiry[heap[3]].expireAt < expiry[heap[2]].expireAt
    /\ expiry[heap[4]].expireAt = expiry[heap[2]].expireAt

\* ---- SessionInfo ----
\* C19: the SessionInfo returned for the session reports its current entity,
\* relationship and document counts, its memory usage and its quota caps.
C19_SessionInfoReportsCounts ==
    EntityCount > 0 =>
    /\ GetInfo.EntityCount = EntityCount
    /\ GetInfo.RelationshipCount = RelationshipCount
    /\ GetInfo.DocumentCount = DocumentCount
    /\ GetInfo.MemoryBytes = MemoryBytes
    /\ GetInfo.MaxEntities = MaxEntities
    /\ GetInfo.MaxRelationships = MaxRelationships
    /\ GetInfo.MaxDocuments = MaxDocuments
    /\ GetInfo.MaxMemoryBytes = MaxMemoryBytes

\* ---- shutdown hooks ----
\* priority of hook n in the copy a Shutdown call works on
PriorityIn(r, n) == (CHOOSE x \in HooksOf(run[r].hooks) : x.Name = n).Priority
NamesIn(r) == { x.Name : x \in HooksOf(run[r].hooks) }

\* C20: within a Shutdown call, a hook is started only when every hook with
\* a lower priority number has returned; while the call waits for a group,
\* every hook of that group has been started, and none of a later group.
C20_HooksRunInPriorityOrder ==
    \A r \in Runs :
        /\ \A n, lower \in NamesIn(r) :
              (PriorityIn(r, lower) < PriorityIn(r, n) /\ run[r].st[n] # "none")
                  => run[r].st[lower] \in {"returned", "errored"}
        /\ run[r].pc = "wait" =>
              \A n \in NamesIn(r) :
                  (PriorityIn(r, n) = Head(run[r].priorities)) <=>
                      (run[r].st[n] # "none" /\ ~(\E m \in NamesIn(r) :
                            PriorityIn(r, m) > PriorityIn(r, n) /\ run[r].st[m] # "none"))

\* C20 witness: two hooks of the same priority are running at the same time
\* after a hook of lower priority number has returned
C20_Witness ==
    \E r \in Runs :
        \E a, b, c \in NamesIn(r) :
            /\ b # c
            /\ PriorityIn(r, a) < PriorityIn(r, b)
            /\ PriorityIn(r, b) = PriorityIn(r, c)
            /\ run[r].st[a] \in {"returned", "errored"}
            /\ run[r].st[b] = "running"
            /\ run[r].st[c] = "running"

\* C21: once the deadline of a Shutdown call has passed, h.done gets closed
\* (Wait returns), whether or not every hook has returned.
C21_ShutdownEndsAfterDeadline ==
    \A r \in Runs : run[r].expired ~> doneClosed

\* ---- GetTaskResult ----
\* C22: a GetTaskResult call returns the task's result only when the task is
\* Complete, an ErrTaskFailed error when the task it looked up was Failed,
\* ErrTaskNotFound when the id is not in the manager, and a timeout error
\* only after the deadline with the task looked up still Pending or Running;
\* a lookup that finds the task Complete or Failed ends the call.
C22_ResultOnlyWhenComplete ==
    [][ /\ (getter.pc # "idle" /\ getter'.pc = "idle") =>
             LET id == getter.id
                 o  == getter'.out
             IN  CASE o.err = nil ->
                        /\ id \in tasks
                        /\ task[id].Status = TaskStatusComplete
                        /\ o.result = task[id].Result
                   [] o.err = ErrTaskFailed ->
                        /\ ReadView(getter.cur).Status = TaskStatusFailed
                        /\ o.result = FALSE
                   [] o.err = ErrTaskNotFound ->
                        /\ id \notin tasks
                        /\ o.result = FALSE
                   [] o.err = ErrTimeout ->
                        /\ now > getter.deadline
                        /\ ReadView(getter.cur).Status
                              \in {TaskStatusPending, TaskStatusRunning}
                        /\ o.result = FALSE
                   [] OTHER -> FALSE
        /\ (getter.pc = "switch" /\ getter' # getter) =>
             LET st == ReadView(getter.cur).Status
             IN  /\ st = TaskStatusComplete => getter'.out.err = nil
                 /\ st = TaskStatusFailed => getter'.out.err = ErrTaskFailed
                 /\ (st \in {TaskStatusPending, TaskStatusRunning}
                        /\ now <= getter.deadline) => getter'.pc = "sleep"
      ]_vars

\* C22 witness: a call made with a non-zero timeout has timed out, after its
\* deadline, on a task that is Running
C22_Witness ==
    /\ getter.pc = "idle"
    /\ getter.out.err = ErrTimeout
    /\ getter.id \in tasks
    /\ task[getter.id].Status = TaskStatusRunning
    /\ getter.deadline > 0
    /\ now > getter.deadline

\* ---- GetTaskStatus ----
\* C24: the record GetTaskStatus hands out holds the task's fields as they
\* were, all together, at the moment of the lookup, and reads the same
\* afterwards whatever happens to the task; an unknown id gives
\* ErrTaskNotFound.
C24_StatusIsAStableCopy ==
    [][ /\ (getter.pc = "poll" /\ getter' # getter) =>
             IF getter.id \in tasks
             THEN /\ getter'.pc = "switch"
                  /\ ReadView(getter.cur)' = FieldsOf(task[getter.id])
             ELSE /\ getter'.pc = "idle"
                  /\ getter'.out.err = ErrTaskNotFound
                  /\ getter'.cur = NoView
        /\ (getter.pc # "poll" /\ getter.cur # NoView) =>
             ReadView(getter.cur)' = ReadView(getter.cur)
      ]_vars

\* C24 witness: the caller holds a record showing the task Pending with no
\* start time while the task itself has since run to completion
C24_Witness ==
    /\ getter.cur # NoView
    /\ ReadView(getter.cur).Status = TaskStatusPending
    /\ ReadView(getter.cur).StartTime = ZeroTime
    /\ getter.id \in tasks
    /\ task[getter.id].Status = TaskStatusComplete
    /\ task[getter.id].EndTime > task[getter.id].StartTime

\* ---- CleanupOldTasks ----
\* whether task id ended before the clock read c: a task that ran ended at its
\* EndTime; a task cancelled in the queue ended at the time of the CancelTask
\* call, which is no earlier than the first clock reading, 0
EndedBefore(id, c) ==
    IF task[id].EndTime # ZeroTime THEN task[id].EndTime < c ELSE 0 < c

\* C23: CleanupOldTasks(maxAge) removes the tasks that are Complete or Failed
\* and ended more than maxAge ago, no others, and returns their number.
C23_CleanupRemovesOnlyOldFinished ==
    [][ \A maxAge \in MaxAges :
          CleanupOldTasks(maxAge) =>
            LET gone == tasks \ tasks'
            IN  /\ tasks' \subseteq tasks
                /\ removed' = Cardinality(gone)
                /\ \A id \in gone :
                      /\ task[id].Status \in {TaskStatusComplete, TaskStatusFailed}
                      /\ EndedBefore(id, now - maxAge)
                /\ \A id \in tasks' :
                      ~ /\ task[id].Status \in {TaskStatusComplete, TaskStatusFailed}
                        /\ task[id].EndTime # ZeroTime
                        /\ task[id].EndTime < now - maxAge
      ]_vars

\* ---- cancelled tasks and the workers ----
\* C28: a worker that takes from the queue a task on which CancelTask has
\* succeeded does not hand it to processTask (whose first block marks it
\* Running and whose computation then runs), and leaves its status and error
\* as CancelTask set them.
C28_CancelledTaskNeverRuns ==
    [][ \A w \in WorkerIds :
          ( /\ WorkerReceive(w)
            /\ task[Head(queue)].Status = TaskStatusFailed
            /\ task[Head(queue)].Error = ErrTaskCancelled )
          => /\ ~(worker'[w].pc = "received" /\ worker'[w].task = Head(queue))
             /\ task' = task
      ]_vars

\* C29: once Shutdown has been called, a worker at its select only returns:
\* it takes nothing more from the queue, and it never takes the nil of the
\* closed queue as a task.
C29_WorkersOnlyExitAfterShutdown ==
    [][ shutdownPc # "idle" =>
          \A w \in WorkerIds : ~WorkerReceive(w) /\ ~WorkerReceiveClosed(w)
      ]_vars

\* ---- LRU cache ----
\* the keys in the list
KeysOf(l) == { l[i].key : i \in 1..Len(l) }
LruWellFormed ==
    /\ capacity > 0 => Len(order) <= capacity
    /\ items = KeysOf(order)
    /\ \A i, j \in 1..Len(order) : order[i].key = order[j].key => i = j

\* C25: with a capacity above zero the cache never holds more entries than
\* the capacity; the map and the list hold the same keys, each once; a Put of
\* a new key into a full cache removes exactly the key whose latest use (Get
\* hit or Put) is the oldest, and any other Put removes nothing.
C25_LruEvictsLeastRecentlyUsed ==
    [][ /\ LruWellFormed /\ LruWellFormed'
        /\ \A key \in LruKeys, value \in LruValues, size \in LruSizes :
              Put(key, value, size) =>
                IF key \notin items /\ capacity > 0 /\ Len(order) = capacity
                THEN \E old \in items :
                        /\ \A k \in items : lastUse[old] <= lastUse[k]
                        /\ items' = (items \ {old}) \cup {key}
                ELSE items' = items \cup {key}
      ]_vars

\* C25 witness: a full cache in which a Get has made the entry put first the
\* most recently used one, so that the next Put of a new key must evict another
C25_Witness ==
    /\ capacity > 1
    /\ Len(order) = capacity
    /\ hits > 0
    /\ \A k \in items : lastUse[order[1].key] >= lastUse[k]
    /\ lruRet = << order[1].value, TRUE >>
    /\ \E k \in LruKeys \ items : lastUse[k] > 0

\* ---- the delay of the cleanup loop ----
\* C26: the delay the loop arms its timer with is at least minDelay, also
\* when the root of the heap is already due; with nothing tracked it is one
\* hour; otherwise it is the time left until the root's expireAt when that is
\* at least minDelay.
C26_DelayNeverBelowFloor ==
    [][ RunResetTimer =>
          LET delay == wakeAt' - now
          IN  /\ delay >= minDelay
              /\ Len(heap) = 0 => delay = Hour
              /\ (Len(heap) > 0 /\ expiry[heap[1]].expireAt - now >= minDelay)
                    => delay = expiry[heap[1]].expireAt - now
      ]_vars

\* C26 witness: the timer has just been armed with the floor while the root
\* of the heap was already overdue
C26_Witness ==
    /\ schedPc = "wait"
    /\ Len(heap) > 0
    /\ expiry[heap[1]].expireAt < now
    /\ wakeAt = now + minDelay

\* C30: when a cleanup pass ends, every session in the engine that has an
\* expiry is tracked by the scheduler; one whose entry the pass popped without
\* evicting it is tracked again, with its current deadline.
C30_TrackedAfterEveryPass ==
    [][ (schedPc \in {"collect", "remove"} /\ schedPc' = "loop") =>
          \A id \in sessions' :
              GetExpireAt(id)' # 0 =>
                  /\ id \in heapIndex'
                  /\ id \in Pending => expiry'[id].expireAt = GetExpireAt(id)'
      ]_vars


\* 1e-5, from below
Tolerance == Normalize(1, 21474, -31)

\* C27: for two vectors of equal length, the result of CosineSimilarity (the
\* 8-lane implementation when the host has AVX2 and FMA and the vectors have
\* at least 8 elements) differs from the result of the scalar implementation
\* by less than 1e-5.
C27_WidenedMatchesScalar ==
    (Len(va) = Len(vb) /\ cosOut # NoOut /\ scalarOut # NoOut)
        => AbsLess(FSub(cosOut, scalarOut), Tolerance)

\* the same on hosts or vectors for which the scalar implementation is selected
SimdScalarPathAgrees ==
    (~(hasAVX2Check /\ Len(va) >= 8) /\ cosOut # NoOut /\ scalarOut # NoOut)
        => cosOut = scalarOut

\* C31: when UpdateSession adds or moves an entry while the loop sleeps, so
\* that the root of the heap falls due before the moment the timer is armed
\* for, the timer fires no later than the root's expireAt, or than minDelay
\* from now if that is later.
C31_EarlierDeadlineWakesLoop ==
    [][ ( /\ schedPc = "wait" /\ schedPc' = "wait"
          /\ << heap, expiry >> # << heap', expiry' >>
          /\ Len(heap') > 0
          /\ expiry'[heap'[1]].expireAt < wakeAt )
        => LET root == expiry'[heap'[1]].expireAt
               floor == now + minDelay
           IN  wakeAt' <= IF root > floor THEN root ELSE floor
      ]_vars

\* C32: the status of a task only moves forward (Pending to Running or, by
\* cancellation, to Failed; Running to Complete or Failed), and a task that is
\* Complete or Failed keeps its status, result and error.
C32_StatusOnlyMovesForward ==
    [][ \A id \in tasks :
          /\ task[id].Status = TaskStatusPending
                => task'[id].Status \in
                     {TaskStatusPending, TaskStatusRunning, TaskStatusFailed}
          /\ task[id].Status = TaskStatusRunning
                => task'[id].Status \in
                     {TaskStatusRunning, TaskStatusComplete, TaskStatusFailed}
          /\ task[id].Status \in {TaskStatusComplete, TaskStatusFailed}
                => /\ task'[id].Status = task[id].Status
                   /\ task'[id].Result = task[id].Result
                   /\ task'[id].Error = task[id].Error
      ]_vars

\* C33: when SubmitCommunityTask returns an error, tm.tasks holds no record
\* for that submission (so GetAllTasks and the totals of GetStats, which read
\* tm.tasks, are what they were before the call).
C33_FailedSubmitLeavesNoRecord ==
    [][ \A p \in Submitters :
          ( /\ submitter[p].pc \in {"select", "parked"}
            /\ submitter'[p].pc = "idle"
            /\ submitter'[p].ret # nil )
          => submitter[p].task \notin tasks'
      ]_vars

\* C34: while Shutdown is not called, with the workers scheduled and every
\* computation returning, each task SubmitCommunityTask has put on the queue
\* is eventually Complete or Failed.
C34_AcceptedTaskFinishes ==
    \A id \in TaskIds :
        (\E i \in 1..Len(queue) : queue[i] = id)
            ~> (id \in tasks /\ task[id].Status \in {TaskStatusComplete, TaskStatusFailed})

\* C34 witness: a task that went through the queue is Complete while another
\* accepted task is still waiting in the queue
C34_Witness ==
    /\ \E id \in tasks : task[id].Status = TaskStatusComplete
    /\ \E i \in 1..Len(queue) : task[queue[i]].Status = TaskStatusPending

\* C35: cleanup() never holds s.mu while it waits for or holds engine.mu, and
\* no two goroutines among the cleanup pass and the engine operations (which
\* call UpdateSession or RemoveSession with engine.mu held) wait for each
\* other's mutex.
C35_NoLockCycle ==
    /\ cleaner \in {"lockEngine", "remove"} => sMu # Cleaner
    /\ \A t, u \in EngineOps \cup {Cleaner} :
          ~(t # u /\ BlockedOn(t) = u /\ BlockedOn(u) = t)

\* C35 witness: the cleanup pass waits for engine.mu while an engine
\* operation holds it and is inside UpdateSession, holding s.mu
C35_Witness ==
    /\ cleaner = "lockEngine"
    /\ \E o \in EngineOps :
          /\ engineMu = o /\ sMu = o
          /\ engineOp[o].pc = "inSched" /\ engineOp[o].call = "UpdateSession"

\* C36: a request that was admitted while the breaker was Closed and whose
\* outcome arrives while the breaker is HalfOpen leaves the state HalfOpen:
\* only outcomes of requests admitted while HalfOpen close or re-open it.
C36_LateOutcomeKeepsHalfOpen ==
    [][ \A p \in ExecCallers :
          \/ ~(cb.state = StateHalfOpen /\ req[p].admittedIn = StateClosed)
          \/ cb'.state = StateHalfOpen
          \/ ~(\E failed \in BOOLEAN : ExecuteAfter(p, failed))
      ]_vars

C38_OpenRejectsHalfOpenLimits ==
    [][ /\ hoAdmitted' <= cb'.halfOpenMaxReqs
        /\ \A p \in ExecCallers :
             \/ /\ (cb.state = StateOpen /\ now - openedAt <= cb.timeout) =>
                      /\ cb'.state = StateOpen
                      /\ req'[p].pc = "idle"
                      /\ req'[p].err = ErrCircuitOpen
                /\ (cb.state = StateOpen /\ now - openedAt > cb.timeout) =>
                      /\ cb'.state = StateHalfOpen
                      /\ req'[p].pc = "running"
                      /\ hoAdmitted' = 1
                /\ cb.state = StateHalfOpen =>
                      /\ cb'.state = StateHalfOpen
                      /\ \/ req'[p].pc = "running" /\ hoAdmitted' = hoAdmitted + 1
                         \/ /\ req'[p].pc = "idle"
                            /\ req'[p].err = ErrTooManyRequests
                            /\ hoAdmitted' = hoAdmitted
             \/ ~ExecuteBefore(p)
      ]_vars

\* a HalfOpen breaker with halfOpenMaxReqs = 2 has admitted two calls, both
\* still running, after a call on the Open breaker was rejected
C38_Witness ==
    /\ cb.state = StateHalfOpen
    /\ cb.halfOpenMaxReqs = 2
    /\ hoAdmitted = 2
    /\ \A p \in ExecCallers : req[p].pc = "running" /\ req[p].admittedIn = StateHalfOpen
    /\ cb.totalRequests > cb.totalFailures + cb.totalSuccesses + 2

\* C39: within one Shutdown call every hook of the handler's list is started
\* exactly once (never again after it ran), whatever errors other hooks
\* returned, and the call closes h.done only when each of them has returned.
C39_EveryHookOnceThenDone ==
    [][ \A r \in Runs :
          \/ run'[r] = run[r]
          \/ /\ \A n \in HookNames :
                  /\ (run'[r].st[n] = "spawned" /\ run[r].pc # "idle") =>
                        /\ run[r].st[n] \in {"none", "spawned"}
                        /\ n \in NamesIn(r)
                  /\ run[r].st[n] \in {"returned", "errored"} =>
                        run'[r].st[n] = run[r].st[n]
             /\ run[r].pc = "idle" =>
                  /\ run'[r].hooks = hooks
                  /\ \A n \in HookNames : run'[r].st[n] = "none"
             /\ run'[r].pc = "done" =>
                  /\ run[r].pc = "close"
                  /\ \A n \in NamesIn(r) : run[r].st[n] \in {"returned", "errored"}
      ]_vars

\* a single Shutdown call has closed h.done: a hook of the first group
\* returned an error, the other hook of that group and the hook of the later
\* group returned without one
C39_Witness ==
    /\ doneClosed
    /\ run["signal"].pc = "idle"
    /\ run["call"].pc = "done"
    /\ NamesIn("call") = HookNames
    /\ PriorityIn("call", "h1") = 1 /\ run["call"].st["h1"] = "errored"
    /\ PriorityIn("call", "h2") = 1 /\ run["call"].st["h2"] = "returned"
    /\ PriorityIn("call", "h3") = 2 /\ run["call"].st["h3"] = "returned"

\* C40: when Shutdown is triggered by the signal and by a direct call, the
\* later trigger neither closes h.done a second time (a panic) nor runs a
\* hook that the other call has run.
C40_SecondTriggerHarmless ==
    /\ ~sdPanic
    /\ \A n \in HookNames :
          ~(run["signal"].st[n] \in {"running", "returned", "errored"}
              /\ run["call"].st[n] \in {"running", "returned", "errored"})

====
